---- MODULE Spec2Model ----
(***************************************************************************)
(* State-machine model of the ml-service asynchronous video pipeline:      *)
(* the TaskManager registry (app/services/task_manager.py), the background *)
(* run and the status poll of app/api/yolo.py, and the annotated-video     *)
(* frame loop of app/services/video_yolo_service.py.                       *)
(*                                                                         *)
(* Python values are encoded as follows.                                   *)
(*   Optional[x]   None is <<>>, a present value x is <<x>>                *)
(*   float in task.progress   an exact fraction [num, den], den > 0,       *)
(*                 in lowest terms                                         *)
(*   time.time()   the integer variable now                                *)
(*   uuid4()       the next unused natural number (nextId)                 *)
(*   dict          a function (tasks) plus its insertion order (order)     *)
(***************************************************************************)
EXTENDS Integers, Sequences, FiniteSets, TLC

VARIABLES
    tasks,      \* TaskManager.tasks: task_id -> TaskProgress
    order,      \* insertion order of TaskManager.tasks (Python dict order)
    max_tasks,  \* TaskManager.max_tasks
    nextId,     \* the id the next uuid4() call returns
    now,        \* the value time.time() returns
    runs,       \* task_id -> state of its background run (_process_video_task)
    poll,       \* the status poll in progress on the event-loop thread
    completions,\* history: task_id -> the results of the last two complete_task calls
    op,         \* the synchronous video operation in progress
    executor    \* VideoYOLOService.executor and the calls that submit to it

vars == <<tasks, order, max_tasks, nextId, now, runs, poll, completions, op, executor>>

(***************************************************************************)
(* Bounds of the model.                                                    *)
(***************************************************************************)
MaxCreated == 1
MaxTime == 2

(***************************************************************************)
(* Python values.                                                          *)
(***************************************************************************)
None == <<>>

Some(x) == <<x>>

Truthy(opt) == opt # None /\ opt[1] # ""

Min(a, b) == IF a <= b THEN a ELSE b

Abs(a) == IF a < 0 THEN -a ELSE a

RECURSIVE Gcd(_, _)
Gcd(a, b) == IF b = 0 THEN a ELSE Gcd(b, a % b)

Frac(n, d) ==
    LET g == Gcd(Abs(n), d)
    IN  [num |-> n \div g, den |-> d \div g]

FracLeq(a, b) == a.num * b.den <= b.num * a.den

Zero == Frac(0, 1)

One == Frac(1, 1)

\* round(x, 2): to the nearest hundredth, ties to even
Round2(x) ==
    LET q == (100 * x.num) \div x.den
        r == (100 * x.num) % x.den
        h == IF 2 * r > x.den THEN q + 1
             ELSE IF 2 * r = x.den THEN q + (q % 2)
             ELSE q
    IN  Frac(h, 100)

Range(s) == {s[i] : i \in 1..Len(s)}

(***************************************************************************)
(* TaskStatus and TaskProgress.                                            *)
(***************************************************************************)
PENDING == "pending"

PROCESSING == "processing"

COMPLETED == "completed"

FAILED == "failed"

TaskProgress(task_id, total_frames, t) ==
    [task_id |-> task_id,
     status |-> PENDING,
     progress |-> Zero,
     current_frame |-> 0,
     total_frames |-> total_frames,
     message |-> "Task created, waiting to start",
     created_at |-> t,
     started_at |-> None,
     completed_at |-> None,
     result |-> None,
     error |-> None]

IsTerminal(task) == task.status \in {COMPLETED, FAILED}

\* current_frame / total_frames without the clamp
ProgressFractionUnclamped(current_frame, total_frames) ==
    Frac(current_frame, total_frames)

\* min(current_frame / total_frames, 1.0)
ProgressFraction(current_frame, total_frames) ==
    IF current_frame >= total_frames THEN One
    ELSE Frac(current_frame, total_frames)

(***************************************************************************)
(* update_progress, statement by statement (each is one attribute store).  *)
(***************************************************************************)
StoreCurrentFrame(task, current_frame) ==
    [task EXCEPT !.current_frame = current_frame]

StoreProgress(task, current_frame) ==
    IF task.total_frames > 0
    THEN [task EXCEPT !.progress = ProgressFraction(current_frame, task.total_frames)]
    ELSE task

StoreMessage(task, message) ==
    IF Truthy(message) THEN [task EXCEPT !.message = message[1]] ELSE task

StoreStatus(task) ==
    [task EXCEPT !.status = PROCESSING]

StoreStartedAt(task, t) ==
    [task EXCEPT !.started_at = Some(t)]

\* the body of update_progress on a task that was found
UpdateProgressFields(task, current_frame, message, t) ==
    LET t1 == StoreMessage(StoreProgress(StoreCurrentFrame(task, current_frame),
                                         current_frame), message)
    IN  IF t1.status = PENDING THEN StoreStartedAt(StoreStatus(t1), t) ELSE t1

\* the body of complete_task on a task that was found
CompleteTaskFields(task, result, t) ==
    [task EXCEPT !.status = COMPLETED,
                 !.progress = One,
                 !.completed_at = Some(t),
                 !.result = Some(result),
                 !.message = "Processing completed successfully"]

\* the body of fail_task on a task that was found
FailTaskFields(task, error, t) ==
    [task EXCEPT !.status = FAILED,
                 !.completed_at = Some(t),
                 !.error = Some(error),
                 !.message = "Processing failed: " \o error]

(***************************************************************************)
(* _cleanup_old_tasks.                                                     *)
(***************************************************************************)
Headroom == 10

\* list.sort(key=completed_at) is stable: e goes after every element whose
\* key is not larger
RECURSIVE InsertByCompletedAt(_, _, _)
InsertByCompletedAt(sorted, e, reg) ==
    IF sorted = <<>> THEN <<e>>
    ELSE IF reg[e].completed_at[1] < reg[Head(sorted)].completed_at[1]
         THEN <<e>> \o sorted
         ELSE <<Head(sorted)>> \o InsertByCompletedAt(Tail(sorted), e, reg)

\* completed_tasks left in dict order: the sort is missing
Unsorted(ids, reg) == ids

RECURSIVE SortByCompletedAt(_, _)
SortByCompletedAt(ids, reg) ==
    IF ids = <<>> THEN <<>>
    ELSE InsertByCompletedAt(SortByCompletedAt(SubSeq(ids, 1, Len(ids) - 1), reg),
                             ids[Len(ids)], reg)

\* the list completed_tasks, before it is sorted
CompletedTasks(reg, ord) ==
    SelectSeq(ord, LAMBDA id : IsTerminal(reg[id]) /\ reg[id].completed_at # None)

ToRemove(size, maxTasks) == size - maxTasks + Headroom

\* _cleanup_old_tasks that selects its victims and deletes none of them
CleanupDeletesNothing(reg, ord, maxTasks) == {}

\* _cleanup_old_tasks that deletes the oldest entries of the dict, whatever their status
CleanupOldestInserted(reg, ord, maxTasks) ==
    IF Len(ord) <= maxTasks THEN {}
    ELSE {ord[i] : i \in 1..Min(ToRemove(Len(ord), maxTasks), Len(ord))}

\* the ids _cleanup_old_tasks deletes from a registry reg with order ord
CleanupVictims(reg, ord, maxTasks) ==
    IF Len(ord) <= maxTasks THEN {}
    ELSE LET sorted == SortByCompletedAt(CompletedTasks(reg, ord), reg)
             n == Min(ToRemove(Len(ord), maxTasks), Len(sorted))
         IN  {sorted[i] : i \in 1..n}

(***************************************************************************)
(* TaskManager operations, each as one atomic call.                        *)
(***************************************************************************)
create_task(total_frames) ==
    LET task_id == nextId
        reg == [id \in DOMAIN tasks \cup {task_id} |->
                   IF id = task_id THEN TaskProgress(task_id, total_frames, now)
                   ELSE tasks[id]]
        ord == Append(order, task_id)
        victims == CleanupVictims(reg, ord, max_tasks)
    IN  /\ tasks' = [id \in DOMAIN reg \ victims |-> reg[id]]
        /\ order' = SelectSeq(ord, LAMBDA id : id \notin victims)
        /\ nextId' = nextId + 1
        /\ completions' = [id \in DOMAIN reg \ victims |->
                              IF id = task_id THEN <<>> ELSE completions[id]]
    
\* update_progress that looks its task up with setdefault: an unknown id gets a task
update_progress_setdefault(task_id, current_frame, message) ==
    LET found == IF task_id \in DOMAIN tasks THEN tasks[task_id]
                 ELSE TaskProgress(task_id, 0, now)
    IN  /\ tasks' = [id \in DOMAIN tasks \cup {task_id} |->
                        IF id = task_id
                        THEN UpdateProgressFields(found, current_frame, message, now)
                        ELSE tasks[id]]
        /\ order' = IF task_id \in DOMAIN tasks THEN order ELSE Append(order, task_id)
        /\ completions' = [id \in DOMAIN tasks \cup {task_id} |->
                              IF id \in DOMAIN tasks THEN completions[id] ELSE <<>>]
        /\ UNCHANGED nextId

update_progress(task_id, current_frame, message) ==
    /\ tasks' = IF task_id \in DOMAIN tasks
                THEN [tasks EXCEPT ![task_id] =
                         UpdateProgressFields(@, current_frame, message, now)]
                ELSE tasks
    /\ UNCHANGED <<order, nextId, completions>>

\* the results of the last two calls, the latest last
Remember(history, result) ==
    Append(IF Len(history) < 2 THEN history ELSE Tail(history), result)

\* complete_task that leaves a result already stored in place
complete_task_keep_first(task_id, result) ==
    /\ tasks' = IF task_id \in DOMAIN tasks
                THEN [tasks EXCEPT ![task_id] =
                         IF @.result # None
                         THEN [CompleteTaskFields(@, result, now) EXCEPT
                                  !.result = tasks[task_id].result]
                         ELSE CompleteTaskFields(@, result, now)]
                ELSE tasks
    /\ completions' = IF task_id \in DOMAIN tasks
                      THEN [completions EXCEPT ![task_id] = Remember(@, result)]
                      ELSE completions
    /\ UNCHANGED <<order, nextId>>

complete_task(task_id, result) ==
    /\ tasks' = IF task_id \in DOMAIN tasks
                THEN [tasks EXCEPT ![task_id] = CompleteTaskFields(@, result, now)]
                ELSE tasks
    /\ completions' = IF task_id \in DOMAIN tasks
                      THEN [completions EXCEPT ![task_id] = Remember(@, result)]
                      ELSE completions
    /\ UNCHANGED <<order, nextId>>

fail_task(task_id, error) ==
    /\ tasks' = IF task_id \in DOMAIN tasks
                THEN [tasks EXCEPT ![task_id] = FailTaskFields(@, error, now)]
                ELSE tasks
    /\ UNCHANGED <<order, nextId, completions>>

(***************************************************************************)
(* The registry driven through its interface by an arbitrary caller.       *)
(***************************************************************************)
SmallMaxTasks == 1

\* the ids a caller may pass: every id create_task can return, and one it never returns
IdSpace == 1..(MaxCreated + 1)

TotalFramesValues == {0, 2}

CurrentFrameValues == {1, 2, 3}

MessageValues == {None, Some("m")}

OneResult == [status |-> "success", output_size_mb |-> 1]

ResultValues == {OneResult, [status |-> "success", output_size_mb |-> 2]}

ErrorValues == {"e"}

NoPoll == [pc |-> "idle"]

NoOp == [pc |-> "idle"]

\* ThreadPoolExecutor(max_workers=2) before any submission: no work item, no
\* thread started, no thread counted as idle; no call in progress
NewExecutor == [queue |-> <<>>, threads |-> <<>>, idle |-> 0, calls |-> <<>>]

InitManager(maxTasks) ==
    /\ tasks = <<>>
    /\ order = <<>>
    /\ max_tasks = maxTasks
    /\ nextId = 1
    /\ now = 1
    /\ runs = <<>>
    /\ poll = NoPoll
    /\ completions = <<>>
    /\ op = NoOp
    /\ executor = NewExecutor

Init == InitManager(SmallMaxTasks)

Tick ==
    /\ now < MaxTime
    /\ now' = now + 1
    /\ UNCHANGED <<tasks, order, max_tasks, nextId, runs, poll, completions, op, executor>>

CreateTask ==
    /\ nextId <= MaxCreated
    /\ \E total_frames \in TotalFramesValues : create_task(total_frames)
    /\ UNCHANGED <<max_tasks, now, runs, poll, op, executor>>

UpdateProgress ==
    /\ \E task_id \in IdSpace, current_frame \in CurrentFrameValues,
          message \in MessageValues :
          update_progress(task_id, current_frame, message)
    /\ UNCHANGED <<max_tasks, now, runs, poll, op, executor>>

CompleteTask ==
    /\ \E task_id \in IdSpace, result \in ResultValues :
          complete_task(task_id, result)
    /\ UNCHANGED <<max_tasks, now, runs, poll, op, executor>>

FailTask ==
    /\ \E task_id \in IdSpace, error \in ErrorValues : fail_task(task_id, error)
    /\ UNCHANGED <<max_tasks, now, runs, poll, op, executor>>

Next == Tick \/ CreateTask \/ UpdateProgress \/ CompleteTask \/ FailTask

Spec == Init /\ [][Next]_vars

(***************************************************************************)
(* The registry under a burst of submissions served by the worker pool:    *)
(* submissions queue up as Pending tasks, the pool starts them in          *)
(* submission order, at most PoolSize of them run at a time, and every     *)
(* run ends in complete_task or fail_task. The clock advances by one tick  *)
(* with every run that ends. A regular run is submitted after every        *)
(* earlier run has ended and it completes; at most MaxIrregular of the     *)
(* registry's tasks are irregular (submitted while an earlier run was in   *)
(* progress, or failed).                                                   *)
(***************************************************************************)
PoolSize == 2

MaxExtra == 1

MaxIrregular == 2

BigMaxTasks == Headroom + 2

BurstSize == BigMaxTasks + MaxExtra

Queued == {id \in DOMAIN tasks : tasks[id].status = PENDING}

Running == {id \in DOMAIN tasks : tasks[id].status = PROCESSING}

\* the tasks submitted while an earlier task's run was in progress
Overlapping ==
    {id \in DOMAIN tasks :
        \E older \in DOMAIN tasks :
           /\ older < id
           /\ \/ tasks[older].completed_at = None
              \/ tasks[older].completed_at[1] >= tasks[id].created_at}

Irregular ==
    Cardinality(Overlapping)
    + Cardinality({id \in DOMAIN tasks : tasks[id].status = FAILED})

InitBurst == InitManager(BigMaxTasks)

BurstSubmit ==
    /\ nextId <= BurstSize
    /\ Cardinality(Queued \cup Running) < PoolSize
    /\ (Queued \cup Running # {}) => Irregular < MaxIrregular
    /\ create_task(0)
    /\ UNCHANGED <<max_tasks, now, runs, poll, op, executor>>

BurstStart ==
    /\ Cardinality(Running) < PoolSize
    /\ \E task_id \in Queued :
          /\ \A other \in Queued : task_id <= other
          /\ update_progress(task_id, 10, None)
    /\ UNCHANGED <<max_tasks, now, runs, poll, op, executor>>

BurstComplete ==
    /\ Queued = {}
    /\ \E task_id \in Running, result \in {OneResult} :
          complete_task(task_id, result)
    /\ now' = now + 1
    /\ UNCHANGED <<max_tasks, runs, poll, op, executor>>

BurstFail ==
    /\ Queued = {}
    /\ Irregular < MaxIrregular
    /\ \E task_id \in Running, error \in ErrorValues : fail_task(task_id, error)
    /\ now' = now + 1
    /\ UNCHANGED <<max_tasks, runs, poll, op, executor>>

\* the ids that are not in the registry: evicted, or never returned by create_task
UnknownIds == (1..(BurstSize + 1)) \ DOMAIN tasks

\* a late progress callback of a run whose task is no longer in the registry
StaleUpdate ==
    /\ \E task_id \in UnknownIds : update_progress(task_id, 10, None)
    /\ UNCHANGED <<max_tasks, now, runs, poll, op, executor>>

StaleComplete ==
    /\ \E task_id \in UnknownIds, result \in {OneResult} :
          complete_task(task_id, result)
    /\ UNCHANGED <<max_tasks, now, runs, poll, op, executor>>

StaleFail ==
    /\ \E task_id \in UnknownIds, error \in ErrorValues : fail_task(task_id, error)
    /\ UNCHANGED <<max_tasks, now, runs, poll, op, executor>>

NextBurst ==
    \/ BurstSubmit
    \/ BurstStart
    \/ BurstComplete
    \/ BurstFail
    \/ StaleUpdate
    \/ StaleComplete
    \/ StaleFail

SpecBurst == InitBurst /\ [][NextBurst]_vars

(***************************************************************************)
(* The registry under sequential submissions: a task is created only when  *)
(* every task created before it is Completed or Failed.                    *)
(***************************************************************************)
SeqSize == SmallMaxTasks + Headroom + MaxExtra + 1

InitSeq == \E k \in {SmallMaxTasks, SmallMaxTasks + 1} : InitManager(k)

SeqSubmit ==
    /\ nextId <= SeqSize
    /\ \A id \in DOMAIN tasks : IsTerminal(tasks[id])
    /\ create_task(0)
    /\ UNCHANGED <<max_tasks, now, runs, poll, op, executor>>

SeqStart ==
    /\ \E task_id \in Queued : update_progress(task_id, 10, None)
    /\ UNCHANGED <<max_tasks, now, runs, poll, op, executor>>

SeqComplete ==
    /\ \E task_id \in Queued \cup Running, result \in {OneResult} :
          complete_task(task_id, result)
    /\ now' = now + 1
    /\ UNCHANGED <<max_tasks, runs, poll, op, executor>>

SeqFail ==
    /\ \E task_id \in Queued \cup Running, error \in ErrorValues :
          fail_task(task_id, error)
    /\ now' = now + 1
    /\ UNCHANGED <<max_tasks, runs, poll, op, executor>>

NextSeq == SeqSubmit \/ SeqStart \/ SeqComplete \/ SeqFail

SpecSeq == InitSeq /\ [][NextSeq]_vars

(***************************************************************************)
(* The registry under overlapping submissions: a task may be created while *)
(* earlier tasks are still Pending or Processing, so the registry can hold *)
(* more than max_tasks tasks that are not terminal.                        *)
(***************************************************************************)
OverlapSize == SmallMaxTasks + 2

InitOverlap == InitManager(SmallMaxTasks)

OverlapSubmit ==
    /\ nextId <= OverlapSize
    /\ \E total_frames \in TotalFramesValues : create_task(total_frames)
    /\ UNCHANGED <<max_tasks, now, runs, poll, op, executor>>

NextOverlap == OverlapSubmit \/ SeqStart \/ SeqComplete \/ SeqFail

SpecOverlap == InitOverlap /\ [][NextOverlap]_vars

(***************************************************************************)
(* The asynchronous pipeline: detect_video_async creates the task and      *)
(* schedules _process_video_task; the run executes its blocking stages on  *)
(* the worker pool, the progress callback calls update_progress on the     *)
(* worker thread, and complete_task / fail_task, submissions and status    *)
(* polls run on the event-loop thread. The event loop runs one callback    *)
(* at a time; a worker thread may run between any two attribute accesses   *)
(* of the event-loop thread.                                               *)
(***************************************************************************)
DefaultMaxTasks == 100

ProgressEvery == 10

MaxSubmits == 1

MaxCallbacks == 2

Digits == <<"0", "1", "2", "3", "4", "5", "6", "7", "8", "9">>

\* str(n) of an integer n >= 0
RECURSIVE IntToStr(_)
IntToStr(n) ==
    IF n < 10 THEN Digits[n + 1] ELSE IntToStr(n \div 10) \o Digits[(n % 10) + 1]

\* a video: the frame count its metadata reports and the frames cap.read() delivers
Videos ==
    {[total_frames |-> 0, readable |-> 0],
     [total_frames |-> ProgressEvery * MaxCallbacks,
      readable |-> ProgressEvery * MaxCallbacks],
     [total_frames |-> ProgressEvery, readable |-> ProgressEvery * MaxCallbacks]}

FrameSkipValues == {0, 1}

\* str(e) of what the detection model may raise
AdapterErrorValues == {"CUDA out of memory", ""}

NewRun(video, frame_skip) ==
    [pc |-> "queued",
     video |-> video,
     frame_skip |-> frame_skip,
     frame_number |-> 0,
     frames_processed |-> 0,
     written |-> 0,
     reported |-> <<>>,
     ended |-> <<>>,
     call |-> None,
     exc |-> None]

\* the runs whose _process occupies a worker thread
OnWorker ==
    {id \in DOMAIN runs :
        runs[id].pc \in {"loop", "up_current_frame", "up_progress", "up_message",
                         "up_status", "up_started_at"}}

WorkerFree == Cardinality(OnWorker) < PoolSize

InUpdateProgress(id) ==
    id \in DOMAIN runs /\ runs[id].call # None

\* the event-loop thread runs its next callback only when the current one has returned
EventLoopIdle == poll.pc = "idle"

Raise(run, text) == [run EXCEPT !.pc = "raised", !.exc = Some(text), !.call = None]

InitAsync == InitManager(DefaultMaxTasks)

\* detect_video_async: read the metadata, create the task, schedule the run
Submit ==
    /\ EventLoopIdle
    /\ WorkerFree
    /\ nextId <= MaxSubmits
    /\ \E video \in Videos, frame_skip \in FrameSkipValues :
          /\ create_task(video.total_frames)
          /\ runs' = [id \in DOMAIN runs \cup {nextId} |->
                         IF id = nextId THEN NewRun(video, frame_skip) ELSE runs[id]]
    /\ UNCHANGED <<max_tasks, now, poll, op, executor>>

\* detect_and_annotate_video: _write_temp_video on the pool
WriteTempVideo(id) ==
    /\ runs[id].pc = "queued"
    /\ WorkerFree
    /\ \/ runs' = [runs EXCEPT ![id].pc = "get_video_info"]
       \/ runs' = [runs EXCEPT ![id] = Raise(@, "[Errno 28] No space left on device")]
    /\ UNCHANGED <<tasks, order, max_tasks, nextId, now, poll, completions, op, executor>>

\* detect_and_annotate_video: _get_video_info on the pool
GetVideoInfo(id) ==
    /\ runs[id].pc = "get_video_info"
    /\ WorkerFree
    /\ \/ runs' = [runs EXCEPT ![id].pc = "open"]
       \/ runs' = [runs EXCEPT ![id] = Raise(@, "Failed to open video file")]
    /\ UNCHANGED <<tasks, order, max_tasks, nextId, now, poll, completions, op, executor>>

\* _process: open the reader and the writer
OpenVideo(id) ==
    /\ runs[id].pc = "open"
    /\ WorkerFree
    /\ \/ runs' = [runs EXCEPT ![id].pc = "loop"]
       \/ runs' = [runs EXCEPT ![id] = Raise(@, "Failed to open input video")]
       \/ runs' = [runs EXCEPT ![id] = Raise(@, "Failed to create output video writer")]
    /\ UNCHANGED <<tasks, order, max_tasks, nextId, now, poll, completions, op, executor>>

ShouldDetect(frame_skip, frame_number) ==
    frame_skip = 0 \/ frame_number % (frame_skip + 1) = 0

ProgressMessage(frame_number, total_frames) ==
    "Processing frame " \o IntToStr(frame_number) \o "/" \o IntToStr(total_frames)

\* the frame loop reads no further frame: the run's future gets its result
EndOfStream(id) ==
    /\ runs[id].pc = "loop"
    /\ runs[id].frame_number = runs[id].video.readable
    /\ runs' = [runs EXCEPT ![id].pc = "returned"]
    /\ UNCHANGED <<tasks, order, max_tasks, nextId, now, poll, completions, op, executor>>

\* the detection model raises on a frame it is given
DetectionRaises(id) ==
    /\ runs[id].pc = "loop"
    /\ runs[id].frame_number < runs[id].video.readable
    /\ ShouldDetect(runs[id].frame_skip, runs[id].frame_number)
    /\ \E text \in AdapterErrorValues : runs' = [runs EXCEPT ![id] = Raise(@, text)]
    /\ UNCHANGED <<tasks, order, max_tasks, nextId, now, poll, completions, op, executor>>

\* a progress test made on the frame number before it is incremented
ReportsProgressBeforeIncrement(frame_number) == (frame_number - 1) % ProgressEvery = 0

\* if progress_callback and frame_number % 10 == 0
ReportsProgress(frame_number) == frame_number % ProgressEvery = 0

\* one iteration of the frame loop, up to the call of progress_callback;
\* written counts the out.write calls, reported lists the current_frame
\* arguments of the callbacks made so far
ProcessFrame(id) ==
    LET run == runs[id]
        detect == ShouldDetect(run.frame_skip, run.frame_number)
        frame_number == run.frame_number + 1
        report == ReportsProgress(frame_number) /\ id \in DOMAIN tasks
    IN  /\ run.pc = "loop"
        /\ run.frame_number < run.video.readable
        /\ runs' = [runs EXCEPT ![id] =
              [run EXCEPT
                 !.frames_processed = IF detect THEN @ + 1 ELSE @,
                 !.written = @ + 1,
                 !.frame_number = frame_number,
                 !.reported = IF ReportsProgress(frame_number)
                              THEN Append(@, frame_number) ELSE @,
                 !.pc = IF report THEN "up_current_frame" ELSE "loop",
                 !.call = IF report
                          THEN Some([current_frame |-> frame_number,
                                     message |-> Some(ProgressMessage(frame_number,
                                                        run.video.total_frames)),
                                     before |-> tasks[id]])
                          ELSE None]]
        /\ UNCHANGED <<tasks, order, max_tasks, nextId, now, poll, completions, op, executor>>

\* the poll in progress sees the state the returning update_progress leaves
Observe(p, id, task) ==
    IF p.pc \notin {"idle", "done"} /\ p.task_id = id
    THEN [p EXCEPT !.stable = @ \cup {task}]
    ELSE p

\* update_progress on the worker thread, one attribute store at a time
UpdateStep(id) ==
    LET run == runs[id]
        call == run.call[1]
        task == tasks[id]
        Store(new, pc) ==
            /\ tasks' = [tasks EXCEPT ![id] = new]
            /\ runs' = [runs EXCEPT ![id].pc = pc,
                                    ![id].call = IF pc = "loop" THEN None ELSE @]
            /\ poll' = IF pc = "loop" THEN Observe(poll, id, new) ELSE poll
    IN  /\ run.pc \in {"up_current_frame", "up_progress", "up_message", "up_status",
                       "up_started_at"}
        /\ CASE run.pc = "up_current_frame" ->
                  Store(StoreCurrentFrame(task, call.current_frame), "up_progress")
             [] run.pc = "up_progress" ->
                  Store(StoreProgress(task, call.current_frame), "up_message")
             [] run.pc = "up_message" ->
                  Store(StoreMessage(task, call.message), "up_status")
             [] run.pc = "up_status" ->
                  IF task.status = PENDING
                  THEN Store(StoreStatus(task), "up_started_at")
                  ELSE Store(task, "loop")
             [] run.pc = "up_started_at" ->
                  Store(StoreStartedAt(task, now), "loop")
        /\ UNCHANGED <<order, max_tasks, nextId, now, completions, op, executor>>

AnnotationStats(run) ==
    [frames_processed |-> run.frames_processed, frames_total |-> run.frame_number]

\* a try block in which the statement after complete_task raises
CompleteThenRaise(id) ==
    /\ EventLoopIdle
    /\ runs[id].pc = "returned"
    /\ complete_task(id, [status |-> "success", stats |-> AnnotationStats(runs[id])])
    /\ runs' = [runs EXCEPT ![id] = [Raise(@, "log record failed") EXCEPT
                                       !.ended = Append(@, "complete_task")]]
    /\ UNCHANGED <<max_tasks, now, poll, op, executor>>

\* _process_video_task after the await: complete_task with the result;
\* ended lists the complete_task and fail_task calls the run has made
Complete(id) ==
    /\ EventLoopIdle
    /\ runs[id].pc = "returned"
    /\ complete_task(id, [status |-> "success", stats |-> AnnotationStats(runs[id])])
    /\ runs' = [runs EXCEPT ![id].pc = "finished",
                            ![id].ended = Append(@, "complete_task")]
    /\ UNCHANGED <<max_tasks, now, poll, op, executor>>

\* an except handler that only logs
FailWithoutFailTask(id) ==
    /\ EventLoopIdle
    /\ runs[id].pc = "raised"
    /\ runs' = [runs EXCEPT ![id].pc = "finished"]
    /\ UNCHANGED <<tasks, order, max_tasks, nextId, now, poll, completions, op, executor>>

\* _process_video_task: except Exception as e: fail_task(task_id, str(e))
Fail(id) ==
    /\ EventLoopIdle
    /\ runs[id].pc = "raised"
    /\ fail_task(id, runs[id].exc[1])
    /\ runs' = [runs EXCEPT ![id].pc = "finished",
                            ![id].ended = Append(@, "fail_task")]
    /\ UNCHANGED <<max_tasks, now, poll, op, executor>>

(***************************************************************************)
(* get_task_status: get_task, then to_dict, one attribute read at a time.  *)
(***************************************************************************)
\* to_dict of a task read in one instant; elapsed_time is passed in
ToDict(task, elapsed_time) ==
    [task_id |-> task.task_id,
     status |-> task.status,
     progress |-> Round2(task.progress),
     current_frame |-> task.current_frame,
     total_frames |-> task.total_frames,
     message |-> task.message,
     created_at |-> task.created_at,
     started_at |-> task.started_at,
     completed_at |-> task.completed_at,
     elapsed_time |-> elapsed_time,
     result |-> task.result,
     error |-> task.error]

\* round(time.time() - self.started_at, 2) if self.started_at else 0
ElapsedTime(task, t) == IF task.started_at # None THEN t - task.started_at[1] ELSE 0

\* the states of the task between two calls that a poll starting now can see
StableNow(id) ==
    IF InUpdateProgress(id) THEN {runs[id].call[1].before} ELSE {tasks[id]}

\* the states the update_progress call in progress can leave the task in
AfterCallInProgress(id) ==
    IF InUpdateProgress(id)
    THEN LET call == runs[id].call[1]
         IN  {UpdateProgressFields(call.before, call.current_frame, call.message, t) :
                 t \in now..MaxTime}
    ELSE {}

PollBegin ==
    /\ EventLoopIdle
    /\ \E id \in DOMAIN tasks :
          poll' = [pc |-> "status", task_id |-> id, snap |-> <<>>,
                   stable |-> StableNow(id)]
    /\ UNCHANGED <<tasks, order, max_tasks, nextId, now, runs, completions, op, executor>>

PollRead ==
    LET task == tasks[poll.task_id]
        Read(field, value, pc) ==
            poll' = [poll EXCEPT !.pc = pc,
                                 !.snap = [f \in DOMAIN poll.snap \cup {field} |->
                                              IF f = field THEN value ELSE poll.snap[f]]]
    IN  /\ poll.pc \in {"status", "progress", "current_frame", "message", "started_at"}
        /\ CASE poll.pc = "status" -> Read("status", task.status, "progress")
             [] poll.pc = "progress" ->
                  Read("progress", Round2(task.progress), "current_frame")
             [] poll.pc = "current_frame" ->
                  Read("current_frame", task.current_frame, "message")
             [] poll.pc = "message" -> Read("message", task.message, "started_at")
             [] poll.pc = "started_at" ->
                  Read("started_at", task.started_at, "elapsed_time")
        /\ UNCHANGED <<tasks, order, max_tasks, nextId, now, runs, completions, op, executor>>

\* the last reads of to_dict and the response
PollReturn ==
    LET id == poll.task_id
        task == tasks[id]
        read == poll.snap
        snap == [ToDict(task, ElapsedTime(task, now)) EXCEPT
                    !.status = read.status,
                    !.progress = read.progress,
                    !.current_frame = read.current_frame,
                    !.message = read.message,
                    !.started_at = read.started_at]
    IN  /\ poll.pc = "elapsed_time"
        /\ poll' = [pc |-> "done", task_id |-> id, snap |-> snap,
                    views |-> {ToDict(t, snap.elapsed_time) :
                                  t \in poll.stable \cup AfterCallInProgress(id)}]
        /\ UNCHANGED <<tasks, order, max_tasks, nextId, now, runs, completions, op, executor>>

PollEnd ==
    /\ poll.pc = "done"
    /\ poll' = NoPoll
    /\ UNCHANGED <<tasks, order, max_tasks, nextId, now, runs, completions, op, executor>>

AsyncIds == 1..MaxSubmits

WorkerStep(id) ==
    /\ id \in DOMAIN runs
    /\ \/ WriteTempVideo(id)
       \/ GetVideoInfo(id)
       \/ OpenVideo(id)
       \/ EndOfStream(id)
       \/ ProcessFrame(id)
       \/ UpdateStep(id)

AdapterFault(id) == id \in DOMAIN runs /\ DetectionRaises(id)

EventLoopStep(id) ==
    /\ id \in DOMAIN runs
    /\ (Complete(id) \/ Fail(id))

Work == \E id \in AsyncIds : WorkerStep(id)

Fault == \E id \in AsyncIds : AdapterFault(id)

Finish == \E id \in AsyncIds : EventLoopStep(id)

Poll == PollBegin \/ PollRead \/ PollReturn \/ PollEnd

NextAsync == Tick \/ Submit \/ Work \/ Fault \/ Finish \/ Poll

\* the pool runs every job it has taken, the event loop runs every callback
\* that is ready, and a poll that has started returns
Fairness ==
    /\ \A id \in AsyncIds : WF_vars(WorkerStep(id)) /\ SF_vars(EventLoopStep(id))
    /\ WF_vars(PollRead \/ PollReturn \/ PollEnd)

SpecAsync == InitAsync /\ [][NextAsync]_vars /\ Fairness

(***************************************************************************)
(* The synchronous video operations: the frame loops of                    *)
(* app/services/video_yolo_service.py and the frame sampler of             *)
(* app/services/video_frame_service.py. One operation runs at a time; op   *)
(* holds its local variables, the temporary files that exist, the decode   *)
(* and encode handles that are open and the releases made so far.          *)
(*   a video      what cv2 reports and delivers: isOpened(), the frame     *)
(*                count and fps of the metadata, the frames read() yields  *)
(*   a detector   the adapter's answer per frame: the class names of the   *)
(*                detections, or an exception                              *)
(* Times and rates are binary-representable, so float arithmetic on them   *)
(* is exact.                                                               *)
(***************************************************************************)
MaxFrames == 3

MaxFrameSkip == 2

ExampleVideo == [openable |-> TRUE, total_frames |-> 300, fps |-> 30, readable |-> 300]

UnreadableVideo == [openable |-> FALSE, total_frames |-> 0, fps |-> 0, readable |-> 0]

SmallVideos ==
    {[openable |-> TRUE, total_frames |-> n, fps |-> 30, readable |-> n] :
        n \in 0..MaxFrames}
    \cup {[openable |-> TRUE, total_frames |-> MaxFrames, fps |-> 0,
           readable |-> MaxFrames],
          UnreadableVideo}

SamplerFrameSkips == 0..MaxFrameSkip

Detectors == {"one_person", "cars_none_person", "first_only", "nothing", "raises"}

\* model.predict and the parsing of its results on frame frame_number
Detect(detector, frame_number) ==
    CASE detector = "one_person" -> [ok |-> TRUE, detections |-> <<"person">>]
      [] detector = "cars_none_person" ->
           [ok |-> TRUE,
            detections |-> CASE frame_number % 3 = 0 -> <<"car", "car">>
                             [] frame_number % 3 = 1 -> <<>>
                             [] OTHER -> <<"person">>]
      [] detector = "nothing" -> [ok |-> TRUE, detections |-> <<>>]
      [] detector = "first_only" ->
           [ok |-> TRUE,
            detections |-> IF frame_number = 0 THEN <<"person">> ELSE <<>>]
      [] detector = "bad_box" -> [ok |-> TRUE, detections |-> <<"person">>]
      [] OTHER ->
           IF frame_number = 0 THEN [ok |-> TRUE, detections |-> <<"person">>]
           ELSE [ok |-> FALSE, text |-> "CUDA out of memory"]

\* a detector whose box on frame 1 has a coordinate that int() rejects
AssemblerDetectors == Detectors \cup {"bad_box"}

\* drawing the detections of a frame: map(int, bbox), cv2.rectangle, cv2.putText
Draw(detector, frame_number) ==
    IF detector = "bad_box" /\ frame_number = 1
    THEN [ok |-> FALSE, text |-> "cannot convert float NaN to integer"]
    ELSE [ok |-> TRUE]

\* round(x, 3): to the nearest thousandth, ties to even
Round3(x) ==
    LET q == (1000 * x.num) \div x.den
        r == (1000 * x.num) % x.den
        h == IF 2 * r > x.den THEN q + 1
             ELSE IF 2 * r = x.den THEN q + (q % 2)
             ELSE q
    IN  Frac(h, 1000)

\* the folds below split the list in halves, left half first

\* sum(fd["count"] for fd in frame_detections[lo..hi])
RECURSIVE SumCounts(_, _, _)
SumCounts(frame_detections, lo, hi) ==
    IF lo > hi THEN 0
    ELSE IF lo = hi THEN frame_detections[lo].count
    ELSE LET mid == (lo + hi) \div 2
         IN  SumCounts(frame_detections, lo, mid) + SumCounts(frame_detections, mid + 1, hi)

\* the class names of all detections of frame_detections[lo..hi], in order
RECURSIVE AllDetections(_, _, _)
AllDetections(frame_detections, lo, hi) ==
    IF lo > hi THEN <<>>
    ELSE IF lo = hi THEN frame_detections[lo].detections
    ELSE LET mid == (lo + hi) \div 2
         IN  AllDetections(frame_detections, lo, mid)
             \o AllDetections(frame_detections, mid + 1, hi)

\* class_counts[name] += 1 for every detection
CountClasses(names) ==
    [c \in Range(names) |-> Cardinality({i \in 1..Len(names) : names[i] = c})]

\* the keys of class_counts in the order they were first inserted
RECURSIVE FirstSeen(_, _, _)
FirstSeen(names, lo, hi) ==
    IF lo > hi THEN <<>>
    ELSE IF lo = hi THEN <<names[lo]>>
    ELSE LET mid == (lo + hi) \div 2
             left == FirstSeen(names, lo, mid)
         IN  left \o SelectSeq(FirstSeen(names, mid + 1, hi),
                               LAMBDA c : c \notin Range(left))

\* a maximum that keeps the last of the entries with the greatest count
RECURSIVE LastMaxByCount(_, _, _)
LastMaxByCount(frames, lo, hi) ==
    IF lo = hi THEN frames[lo]
    ELSE LET mid == (lo + hi) \div 2
             left == LastMaxByCount(frames, lo, mid)
             right == LastMaxByCount(frames, mid + 1, hi)
         IN  IF right.count >= left.count THEN right ELSE left

\* max(frames[lo..hi], key=count): the first of the entries with the greatest count
RECURSIVE MaxByCount(_, _, _)
MaxByCount(frames, lo, hi) ==
    IF lo = hi THEN frames[lo]
    ELSE LET mid == (lo + hi) \div 2
             left == MaxByCount(frames, lo, mid)
             right == MaxByCount(frames, mid + 1, hi)
         IN  IF right.count > left.count THEN right ELSE left

_generate_summary(frame_detections) ==
    LET total_detections == SumCounts(frame_detections, 1, Len(frame_detections))
        names == AllDetections(frame_detections, 1, Len(frame_detections))
        frames_with_objects == SelectSeq(frame_detections, LAMBDA fd : fd.count > 0)
        max_objects_frame ==
            IF frames_with_objects # <<>>
            THEN Some(MaxByCount(frames_with_objects, 1, Len(frames_with_objects)))
            ELSE None
        avg_objects_per_frame ==
            IF frame_detections # <<>>
            THEN Frac(total_detections, Len(frame_detections))
            ELSE Zero
    IN  [total_detections |-> total_detections,
         unique_classes |-> FirstSeen(names, 1, Len(names)),
         detections_by_class |-> CountClasses(names),
         frames_with_detections |-> Len(frames_with_objects),
         frames_without_detections |-> Len(frame_detections) - Len(frames_with_objects),
         avg_detections_per_frame |-> Round2(avg_objects_per_frame),
         max_detections_in_frame |->
             IF max_objects_frame # None THEN max_objects_frame[1].count ELSE 0,
         frame_with_most_objects |->
             IF max_objects_frame # None THEN Some(max_objects_frame[1].frame_number)
             ELSE None]

(***************************************************************************)
(* detect_objects_in_video and segment_objects_in_video.                   *)
(***************************************************************************)
\* the bodies the class statement binds to the name segment_objects_in_video,
\* in source order; a later def replaces an earlier one
SegmentObjectsInVideoDefs == <<"segmentation_frame_loop", "not_implemented">>

BoundMethod(defs) == defs[Len(defs)]

MethodBody(kind) ==
    IF kind = "detect_objects_in_video" THEN "detection_frame_loop"
    ELSE BoundMethod(SegmentObjectsInVideoDefs)

AdapterOf(body) ==
    IF body = "detection_frame_loop" THEN "detection_model" ELSE "segmentation_model"

ErrorDict(body, text) ==
    [status |-> "error",
     message |-> (IF body = "detection_frame_loop" THEN "Failed to process video: "
                  ELSE "Failed to segment video: ") \o text]

\* videos on which cap.read() fails at frame k although the metadata counts
\* MaxFrames frames
CorruptVideos ==
    {[openable |-> TRUE, total_frames |-> MaxFrames, fps |-> 30, readable |-> k] :
        k \in 0..(MaxFrames - 1)}

OrchestratorCalls ==
    {[kind |-> kind, caller |-> caller, video |-> video, detector |-> detector,
      write_fails |-> write_fails, frame_skip |-> frame_skip] :
        kind \in {"detect_objects_in_video", "segment_objects_in_video"},
        caller \in {"endpoint", "direct"},
        video \in SmallVideos \cup CorruptVideos \cup {ExampleVideo},
        detector \in Detectors,
        write_fails \in BOOLEAN,
        frame_skip \in SamplerFrameSkips}

\* what the model explores: the example video with one detector, a failing
\* write with one video, the caller only where the callers differ
OrchestratorInputs ==
    {c \in OrchestratorCalls :
        /\ c.video = ExampleVideo => c.detector = "one_person"
        /\ c.video \in CorruptVideos => c.detector \in {"one_person", "raises"}
        /\ c.write_fails => c.video = UnreadableVideo /\ c.detector = "one_person"
        /\ c.kind = "detect_objects_in_video" => c.caller = "direct"
        /\ c.kind = "segment_objects_in_video" =>
              c.video \in SmallVideos /\ c.detector \in {"one_person", "first_only"}}

NewOrchestratorOp(c) ==
    [pc |-> "write_temp",
     kind |-> c.kind,
     body |-> MethodBody(c.kind),
     video |-> c.video,
     detector |-> c.detector,
     write_fails |-> c.write_fails,
     frame_skip |-> c.frame_skip,
     files |-> {},
     temp_video_path |-> None,
     open |-> {},
     releases |-> <<>>,
     frame_number |-> 0,
     frame_results |-> <<>>,
     adapter_calls |-> <<>>,
     result |-> None,
     raised |-> None]

IsOrchestrator ==
    op.pc # "idle" /\ op.kind \in {"detect_objects_in_video", "segment_objects_in_video"}

\* the call: the second definition of segment_objects_in_video takes no classes
\* argument and returns at once
CallOrchestrator ==
    /\ op.pc = "idle"
    /\ \E c \in OrchestratorInputs :
          LET o == NewOrchestratorOp(c)
          IN  op' = IF o.body # "not_implemented" THEN o
                    ELSE IF c.caller = "endpoint"
                    THEN [o EXCEPT !.pc = "done",
                                   !.raised = Some("segment_objects_in_video() got an unexpected keyword argument 'classes'")]
                    ELSE [o EXCEPT !.pc = "done",
                                   !.result = Some([status |-> "error",
                                                    message |-> "Video segmentation not yet implemented. Use detect_objects_in_video instead."])]
    /\ UNCHANGED <<tasks, order, max_tasks, nextId, now, runs, poll, completions, executor>>

\* except Exception: return the error dictionary; finally: remove the temporary file
OrchestratorError(o, text) ==
    [o EXCEPT !.pc = "done",
              !.result = Some(ErrorDict(o.body, text)),
              !.files = IF o.temp_video_path # None THEN @ \ {o.temp_video_path[1]} ELSE @]

\* _write_temp_video: mkstemp, os.write, os.close
OrchestratorWriteTemp ==
    /\ IsOrchestrator
    /\ op.pc = "write_temp"
    /\ LET created == [op EXCEPT !.files = @ \cup {"input"}]
       IN  op' = IF op.write_fails
                 THEN OrchestratorError(created, "[Errno 28] No space left on device")
                 ELSE [created EXCEPT !.temp_video_path = Some("input"),
                                      !.pc = "get_info"]
    /\ UNCHANGED <<tasks, order, max_tasks, nextId, now, runs, poll, completions, executor>>

\* _get_video_info: open, read the metadata, release
OrchestratorGetInfo ==
    /\ IsOrchestrator
    /\ op.pc = "get_info"
    /\ op' = IF ~op.video.openable
             THEN OrchestratorError(op, "Failed to open video file")
             ELSE [op EXCEPT !.releases = Append(@, "info_cap"), !.pc = "open"]
    /\ UNCHANGED <<tasks, order, max_tasks, nextId, now, runs, poll, completions, executor>>

\* _process_frames: cv2.VideoCapture(video_path)
OrchestratorOpen ==
    /\ IsOrchestrator
    /\ op.pc = "open"
    /\ op' = IF ~op.video.openable
             THEN OrchestratorError(op, "Failed to open video file for processing")
             ELSE [op EXCEPT !.open = @ \cup {"cap"}, !.pc = "loop"]
    /\ UNCHANGED <<tasks, order, max_tasks, nextId, now, runs, poll, completions, executor>>

Timestamp(frame_number, fps) ==
    IF fps > 0 THEN Frac(frame_number, fps) ELSE Zero

\* a decimation that keeps one frame of every frame_skip
SkipFrameEveryFrameSkip(frame_skip, frame_number) ==
    frame_skip > 0 /\ frame_number % frame_skip # 0

\* if frame_skip > 0 and frame_number % (frame_skip + 1) != 0: continue
SkipFrame(frame_skip, frame_number) ==
    frame_skip > 0 /\ frame_number % (frame_skip + 1) # 0

\* one iteration of the frame loop on a frame that was read
OrchestratorFrame ==
    /\ IsOrchestrator
    /\ op.pc = "loop"
    /\ op.frame_number < op.video.readable
    /\ LET frame_number == op.frame_number
           answer == Detect(op.detector, frame_number)
           called == [op EXCEPT !.adapter_calls =
                         Append(@, [model |-> AdapterOf(op.body),
                                    frame_number |-> frame_number])]
           released == [called EXCEPT !.open = @ \ {"cap"},
                                      !.releases = Append(@, "cap")]
       IN  op' = IF SkipFrame(op.frame_skip, frame_number)
                 THEN [op EXCEPT !.frame_number = frame_number + 1]
                 ELSE IF ~answer.ok
                 THEN OrchestratorError(released, answer.text)
                 ELSE [called EXCEPT
                          !.frame_results =
                              Append(@, [frame_number |-> frame_number,
                                         timestamp |-> Round3(Timestamp(frame_number,
                                                                        op.video.fps)),
                                         detections |-> answer.detections,
                                         count |-> Len(answer.detections)]),
                          !.frame_number = frame_number + 1]
    /\ UNCHANGED <<tasks, order, max_tasks, nextId, now, runs, poll, completions, executor>>

\* a frame loop that reports a read failure before the last frame as an error
OrchestratorReadFailureIsError ==
    /\ IsOrchestrator
    /\ op.pc = "loop"
    /\ op.frame_number = op.video.readable
    /\ LET released == [op EXCEPT !.open = @ \ {"cap"},
                                  !.releases = Append(@, "cap")]
       IN  op' = IF op.frame_number < op.video.total_frames
                 THEN OrchestratorError(released, "Failed to read frame "
                                                  \o IntToStr(op.frame_number))
                 ELSE [released EXCEPT !.pc = "summary"]
    /\ UNCHANGED <<tasks, order, max_tasks, nextId, now, runs, poll, completions, executor>>

\* cap.read() returns no frame: break, release the reader
OrchestratorEndOfStream ==
    /\ IsOrchestrator
    /\ op.pc = "loop"
    /\ op.frame_number = op.video.readable
    /\ op' = [op EXCEPT !.open = @ \ {"cap"},
                        !.releases = Append(@, "cap"),
                        !.pc = "summary"]
    /\ UNCHANGED <<tasks, order, max_tasks, nextId, now, runs, poll, completions, executor>>

\* the summary, the returned dictionary, and the finally clause
OrchestratorReturn ==
    /\ IsOrchestrator
    /\ op.pc = "summary"
    /\ op' = [op EXCEPT
                 !.pc = "done",
                 !.result =
                     Some(IF op.body = "detection_frame_loop"
                          THEN [status |-> "success",
                                frame_detections |-> op.frame_results,
                                summary |-> _generate_summary(op.frame_results)]
                          ELSE [status |-> "success",
                                frame_segmentations |-> op.frame_results,
                                summary |-> _generate_summary(op.frame_results)]),
                 !.files = @ \ {op.temp_video_path[1]}]
    /\ UNCHANGED <<tasks, order, max_tasks, nextId, now, runs, poll, completions, executor>>

\* the caller has the outcome; the next operation may start
OperationOver ==
    /\ op.pc = "done"
    /\ op' = NoOp
    /\ UNCHANGED <<tasks, order, max_tasks, nextId, now, runs, poll, completions, executor>>

Orchestrator ==
    \/ CallOrchestrator
    \/ OrchestratorWriteTemp
    \/ OrchestratorGetInfo
    \/ OrchestratorOpen
    \/ OrchestratorFrame
    \/ OrchestratorEndOfStream
    \/ OrchestratorReturn

(***************************************************************************)
(* detect_and_annotate_video called by the detect-video-annotated          *)
(* endpoint: no progress callback.                                         *)
(***************************************************************************)
AssemblerCalls ==
    {[video |-> video, detector |-> detector, write_fails |-> write_fails,
      writer_fails |-> writer_fails, frame_skip |-> frame_skip] :
        video \in SmallVideos \cup {ExampleVideo},
        detector \in AssemblerDetectors,
        write_fails \in BOOLEAN,
        writer_fails \in BOOLEAN,
        frame_skip \in SamplerFrameSkips}

\* what the model explores: the example video with one detector and no skipping,
\* each environment fault with one video
AssemblerInputs ==
    {c \in AssemblerCalls :
        /\ c.video = ExampleVideo => c.detector = "one_person" /\ c.frame_skip = 0
        /\ c.write_fails => c.video = UnreadableVideo /\ ~c.writer_fails
        /\ (c.write_fails \/ c.writer_fails) => c.detector = "one_person" /\ c.frame_skip = 0
        /\ c.writer_fails => c.video \in {v \in SmallVideos : v.readable = MaxFrames /\ v.fps > 0}}

NewAssemblerOp(c) ==
    [pc |-> "write_temp",
     kind |-> "detect_and_annotate_video",
     video |-> c.video,
     detector |-> c.detector,
     write_fails |-> c.write_fails,
     writer_fails |-> c.writer_fails,
     frame_skip |-> c.frame_skip,
     files |-> {},
     temp_input_path |-> None,
     temp_output_path |-> None,
     open |-> {},
     releases |-> <<>>,
     frame_number |-> 0,
     frames_read |-> 0,
     written |-> <<>>,
     adapter_calls |-> <<>>,
     total_detections |-> 0,
     frames_with_detections |-> 0,
     class_counts |-> <<>>,
     unique_classes |-> <<>>,
     frames_processed |-> 0,
     palette |-> [colors |-> <<>>, draws |-> 0],
     result |-> None,
     raised |-> None]

IsAssembler == op.pc # "idle" /\ op.kind = "detect_and_annotate_video"

CallAssembler ==
    /\ op.pc = "idle"
    /\ \E c \in AssemblerInputs : op' = NewAssemblerOp(c)
    /\ UNCHANGED <<tasks, order, max_tasks, nextId, now, runs, poll, completions, executor>>

\* an except clause that returns the statistics gathered so far
AssemblerReturnPartial(o, text) ==
    [o EXCEPT !.pc = "done",
              !.result = Some([output_frames |-> o.written,
                               stats |-> [frames_total |-> o.frame_number,
                                          frames_processed |-> o.frames_processed]]),
              !.files = {}]

\* except Exception: raise; finally: remove the temporary files whose paths are set
AssemblerRaise(o, text) ==
    [o EXCEPT !.pc = "done",
              !.raised = Some(text),
              !.files = (@ \ (IF o.temp_input_path # None THEN {o.temp_input_path[1]} ELSE {}))
                        \ (IF o.temp_output_path # None THEN {o.temp_output_path[1]} ELSE {})]

AssemblerWriteTemp ==
    /\ IsAssembler
    /\ op.pc = "write_temp"
    /\ LET created == [op EXCEPT !.files = @ \cup {"input"}]
       IN  op' = IF op.write_fails
                 THEN AssemblerRaise(created, "[Errno 28] No space left on device")
                 ELSE [created EXCEPT !.temp_input_path = Some("input"),
                                      !.pc = "get_info"]
    /\ UNCHANGED <<tasks, order, max_tasks, nextId, now, runs, poll, completions, executor>>

AssemblerGetInfo ==
    /\ IsAssembler
    /\ op.pc = "get_info"
    /\ op' = IF ~op.video.openable
             THEN AssemblerRaise(op, "Failed to open video file")
             ELSE [op EXCEPT !.releases = Append(@, "info_cap"), !.pc = "open"]
    /\ UNCHANGED <<tasks, order, max_tasks, nextId, now, runs, poll, completions, executor>>

\* mkstemp for the output, then _process opens the reader and the writer
AssemblerOpen ==
    /\ IsAssembler
    /\ op.pc = "open"
    /\ LET made == [op EXCEPT !.files = @ \cup {"output"},
                              !.temp_output_path = Some("output")]
       IN  op' = IF ~op.video.openable
                 THEN AssemblerRaise(made, "Failed to open input video")
                 ELSE IF op.writer_fails
                 THEN AssemblerRaise([made EXCEPT !.releases = Append(@, "cap")],
                                     "Failed to create output video writer")
                 ELSE [made EXCEPT !.open = {"cap", "out"}, !.pc = "loop"]
    /\ UNCHANGED <<tasks, order, max_tasks, nextId, now, runs, poll, completions, executor>>

\* an assembler that writes only the frames it sent to the detector
WriteDetectedFrame(written, frame_number, should_detect) ==
    IF should_detect THEN Append(written, frame_number) ELSE written

\* out.write(frame)
WriteFrame(written, frame_number, should_detect) == Append(written, frame_number)

\* a count of the frames in which each class occurs
CountOncePerFrame(class_counts, names) ==
    [c \in DOMAIN class_counts \cup Range(names) |->
        (IF c \in DOMAIN class_counts THEN class_counts[c] ELSE 0)
        + (IF c \in Range(names) THEN 1 ELSE 0)]

\* class_counts[class_name] += 1 for each detection of one frame
RECURSIVE CountInto(_, _)
CountInto(class_counts, names) ==
    IF names = <<>> THEN class_counts
    ELSE CountInto([c \in DOMAIN class_counts \cup {names[1]} |->
                       IF c = names[1]
                       THEN (IF c \in DOMAIN class_counts THEN class_counts[c] ELSE 0) + 1
                       ELSE class_counts[c]],
                   Tail(names))

\* np.random.seed(42), then the successive values of
\* tuple(int(c) for c in np.random.randint(0, 255, 3))
SeededColours == <<<<102, 179, 92>>, <<14, 106, 71>>, <<188, 20, 102>>>>

\* if class_name not in colors: colors[class_name] = <the next draw>,
\* for each detection of one frame
RECURSIVE ColourInto(_, _)
ColourInto(palette, names) ==
    IF names = <<>> THEN palette
    ELSE ColourInto(IF names[1] \in DOMAIN palette.colors THEN palette
                    ELSE [colors |-> [c \in DOMAIN palette.colors \cup {names[1]} |->
                                         IF c = names[1]
                                         THEN SeededColours[palette.draws + 1]
                                         ELSE palette.colors[c]],
                          draws |-> palette.draws + 1],
                    Tail(names))

\* the finally clause of _process
ReleaseBoth(o) ==
    [o EXCEPT !.open = @ \ {"cap", "out"}, !.releases = @ \o <<"cap", "out">>]

\* one iteration of the frame loop on a frame that was read
AssemblerFrame ==
    /\ IsAssembler
    /\ op.pc = "loop"
    /\ op.frame_number < op.video.readable
    /\ LET frame_number == op.frame_number
           should_detect == ShouldDetect(op.frame_skip, frame_number)
           answer == Detect(op.detector, frame_number)
           read == [op EXCEPT !.frames_read = @ + 1]
           called == [read EXCEPT !.adapter_calls =
                         Append(@, [model |-> "detection_model",
                                    frame_number |-> frame_number])]
           counted ==
               IF Len(answer.detections) > 0
               THEN [called EXCEPT
                        !.frames_with_detections = @ + 1,
                        !.total_detections = @ + Len(answer.detections),
                        !.class_counts = CountInto(@, answer.detections),
                        !.palette = ColourInto(@, answer.detections),
                        !.unique_classes =
                            @ \o SelectSeq(FirstSeen(answer.detections, 1,
                                                     Len(answer.detections)),
                                           LAMBDA c : c \notin Range(op.unique_classes))]
               ELSE called
           \* the first detection of the frame is counted, then its box is drawn
           undrawn ==
               [called EXCEPT
                  !.frames_with_detections = @ + 1,
                  !.total_detections = @ + Len(answer.detections),
                  !.class_counts = CountInto(@, <<answer.detections[1]>>),
                  !.palette = ColourInto(@, <<answer.detections[1]>>),
                  !.unique_classes =
                      @ \o SelectSeq(<<answer.detections[1]>>,
                                     LAMBDA c : c \notin Range(op.unique_classes))]
           drawn == IF Len(answer.detections) > 0
                    THEN Draw(op.detector, frame_number)
                    ELSE [ok |-> TRUE]
           detected == [counted EXCEPT !.frames_processed = @ + 1]
           Advance(o) == [o EXCEPT
                            !.written = WriteFrame(@, frame_number, should_detect),
                            !.frame_number = frame_number + 1]
       IN  op' = IF ~should_detect THEN Advance(read)
                 ELSE IF ~answer.ok
                 THEN AssemblerRaise(ReleaseBoth(called), answer.text)
                 ELSE IF ~drawn.ok
                 THEN AssemblerRaise(ReleaseBoth(undrawn), drawn.text)
                 ELSE Advance(detected)
    /\ UNCHANGED <<tasks, order, max_tasks, nextId, now, runs, poll, completions, executor>>

AssemblerEndOfStream ==
    /\ IsAssembler
    /\ op.pc = "loop"
    /\ op.frame_number = op.video.readable
    /\ op' = [ReleaseBoth(op) EXCEPT !.pc = "read_output"]
    /\ UNCHANGED <<tasks, order, max_tasks, nextId, now, runs, poll, completions, executor>>

\* the statistics _process returns
DetectionStats(o) ==
    [total_detections |-> o.total_detections,
     frames_with_detections |-> o.frames_with_detections,
     frames_processed |-> o.frames_processed,
     frames_total |-> o.frame_number,
     detections_by_class |-> o.class_counts,
     unique_classes |-> o.unique_classes]

\* read the output file, return it with the statistics; finally remove both files
AssemblerReturn ==
    /\ IsAssembler
    /\ op.pc = "read_output"
    /\ op' = [op EXCEPT
                 !.pc = "done",
                 !.result = Some([output_frames |-> op.written,
                                  stats |-> DetectionStats(op)]),
                 !.files = @ \ {op.temp_input_path[1], op.temp_output_path[1]}]
    /\ UNCHANGED <<tasks, order, max_tasks, nextId, now, runs, poll, completions, executor>>

Assembler ==
    \/ CallAssembler
    \/ AssemblerWriteTemp
    \/ AssemblerGetInfo
    \/ AssemblerOpen
    \/ AssemblerFrame
    \/ AssemblerEndOfStream
    \/ AssemblerReturn

(***************************************************************************)
(* VideoFrameService: get_video_info, extract_single_frame,                *)
(* extract_frames_by_interval, extract_frames_by_indices.                  *)
(***************************************************************************)
\* str(n) of an integer
SignedToStr(n) == IF n < 0 THEN "-" \o IntToStr(0 - n) ELSE IntToStr(n)

FracLess(a, b) == a.num * b.den < b.num * a.den

FracAdd(a, b) == Frac(a.num * b.den + b.num * a.den, a.den * b.den)

\* int(x * k) for a fraction x >= 0 and an integer k >= 0
FloorTimes(x, k) == (x.num * k) \div x.den

\* a rounding of x * k to the next integer up
CeilTimes(x, k) == (x.num * k + x.den - 1) \div x.den

\* a video of MaxFrames frames at one frame per second
SlowVideo == [openable |-> TRUE, total_frames |-> MaxFrames, fps |-> 1, readable |-> MaxFrames]

\* a video whose metadata counts one frame more than read() delivers
TruncatedVideo ==
    [openable |-> TRUE, total_frames |-> MaxFrames, fps |-> 1, readable |-> MaxFrames - 1]

SamplerVideos == SmallVideos \cup {ExampleVideo, SlowVideo, TruncatedVideo}

FrameIndexValues == {None} \cup {Some(i) : i \in (0 - 1)..(MaxFrames + 1)}

FrameIntervalValues == {Frac(1, 2), Frac(2, 1)}

DefaultMaxFrames == 10

MaxFramesValues == {1, 2, DefaultMaxFrames}

FrameIndicesValues == {<<>>, <<0, MaxFrames>>, <<1, 0>>}

SamplerCalls ==
    {[kind |-> "get_video_info", video |-> video, write_fails |-> write_fails] :
        video \in SamplerVideos, write_fails \in BOOLEAN}
    \cup
    {[kind |-> "extract_single_frame", video |-> video, write_fails |-> write_fails,
      frame_index |-> frame_index] :
        video \in SamplerVideos, write_fails \in BOOLEAN,
        frame_index \in FrameIndexValues \cup {Some(v.total_frames) : v \in SamplerVideos}}
    \cup
    {[kind |-> "extract_frames_by_interval", video |-> video, write_fails |-> write_fails,
      frame_interval |-> frame_interval, max_frames |-> max_frames] :
        video \in SamplerVideos, write_fails \in BOOLEAN,
        frame_interval \in FrameIntervalValues, max_frames \in MaxFramesValues}
    \cup
    {[kind |-> "extract_frames_by_indices", video |-> video, write_fails |-> write_fails,
      frame_indices |-> frame_indices] :
        video \in SamplerVideos, write_fails \in BOOLEAN,
        frame_indices \in FrameIndicesValues}

\* what the model explores: a failing write with one video
SamplerInputs == {c \in SamplerCalls : c.write_fails => c.video = UnreadableVideo}

SamplerKinds ==
    {"get_video_info", "extract_single_frame", "extract_frames_by_interval",
     "extract_frames_by_indices"}

NewSamplerOp(c) ==
    [pc |-> "write_temp",
     kind |-> c.kind,
     call |-> c,
     video |-> c.video,
     write_fails |-> c.write_fails,
     files |-> {},
     temp_path |-> None,
     open |-> {},
     releases |-> <<>>,
     video_info |-> None,
     frames_to_extract |-> <<>>,
     current_time |-> Zero,
     pending |-> <<>>,
     extracted_frames |-> <<>>,
     result |-> None,
     raised |-> None]

IsSampler == op.pc # "idle" /\ op.kind \in SamplerKinds

CallSampler ==
    /\ op.pc = "idle"
    /\ \E c \in SamplerInputs : op' = NewSamplerOp(c)
    /\ UNCHANGED <<tasks, order, max_tasks, nextId, now, runs, poll, completions, executor>>

\* _write_video_to_temp, called before the try statement
SamplerWriteTemp ==
    /\ IsSampler
    /\ op.pc = "write_temp"
    /\ LET created == [op EXCEPT !.files = @ \cup {"input"}]
       IN  op' = IF op.write_fails
                 THEN [created EXCEPT !.pc = "done",
                                      !.raised = Some("[Errno 28] No space left on device")]
                 ELSE [created EXCEPT !.temp_path = Some("input"), !.pc = "open"]
    /\ UNCHANGED <<tasks, order, max_tasks, nextId, now, runs, poll, completions, executor>>

\* finally: if os.path.exists(temp_path): os.remove(temp_path)
SamplerFinally(o) == [o EXCEPT !.pc = "done", !.files = @ \ {o.temp_path[1]}]

SamplerRaise(o, text) == SamplerFinally([o EXCEPT !.raised = Some(text)])

SamplerReturnValue(o, value) == SamplerFinally([o EXCEPT !.result = Some(value)])

Release(o) == [o EXCEPT !.open = @ \ {"cap"}, !.releases = Append(@, "cap")]

VideoInfo(video) ==
    [total_frames |-> video.total_frames,
     fps |-> video.fps,
     duration |-> IF video.fps > 0 THEN Frac(video.total_frames, video.fps) ELSE Zero]

\* an index check that clamps the index into the video
ClampedIndex(frame_index, total_frames) ==
    IF frame_index < 0 THEN Some(0)
    ELSE IF frame_index >= total_frames THEN Some(total_frames - 1)
    ELSE Some(frame_index)

\* if frame_index < 0 or frame_index >= total_frames: raise ValueError
CheckedIndex(frame_index, total_frames) ==
    IF frame_index < 0 \/ frame_index >= total_frames THEN None ELSE Some(frame_index)

\* cap.set(CAP_PROP_POS_FRAMES, i); ret, frame = cap.read()
ReadAt(video, i) == 0 <= i /\ i < video.readable

\* cv2.VideoCapture(temp_path) and what follows up to the first loop
SamplerOpen ==
    /\ IsSampler
    /\ op.pc = "open"
    /\ LET opened == [op EXCEPT !.open = {"cap"}]
           total_frames == op.video.total_frames
           fps == op.video.fps
           frame_index == IF op.call.frame_index = None THEN total_frames \div 2
                          ELSE op.call.frame_index[1]
           checked == CheckedIndex(frame_index, total_frames)
       IN  op' =
             IF ~op.video.openable THEN SamplerRaise(op, "Failed to open video file")
             ELSE CASE op.kind = "get_video_info" ->
                         SamplerReturnValue(Release(opened), VideoInfo(op.video))
                    [] op.kind = "extract_single_frame" ->
                         IF checked = None
                         THEN SamplerRaise(opened, "Frame index " \o SignedToStr(frame_index)
                                                   \o " out of range (0-"
                                                   \o SignedToStr(total_frames - 1) \o ")")
                         ELSE IF ~ReadAt(op.video, checked[1])
                         THEN SamplerRaise(Release(opened), "Failed to extract frame "
                                                            \o SignedToStr(checked[1]))
                         ELSE SamplerReturnValue(
                                  Release(opened),
                                  [frame_index |-> checked[1],
                                   timestamp |-> Timestamp(checked[1], fps)])
                    [] op.kind = "extract_frames_by_interval" ->
                         [opened EXCEPT !.video_info = Some(VideoInfo(op.video)),
                                        !.pc = "select"]
                    [] op.kind = "extract_frames_by_indices" ->
                         [opened EXCEPT
                             !.pending = [i \in 1..Len(op.call.frame_indices) |->
                                             [index |-> op.call.frame_indices[i],
                                              timestamp |->
                                                  Timestamp(op.call.frame_indices[i], fps)]],
                             !.pc = "extract"]
    /\ UNCHANGED <<tasks, order, max_tasks, nextId, now, runs, poll, completions, executor>>

\* a frame index rounded up
FrameIndexRoundedUp(current_time, fps) == CeilTimes(current_time, fps)

\* frame_index = int(current_time * fps)
FrameIndexAt(current_time, fps) == FloorTimes(current_time, fps)

\* one evaluation of the while condition and, if it holds, one iteration
SamplerSelect ==
    /\ IsSampler
    /\ op.pc = "select"
    /\ LET info == op.video_info[1]
           frame_index == FrameIndexAt(op.current_time, info.fps)
       IN  op' =
             IF FracLess(op.current_time, info.duration)
                /\ Len(op.frames_to_extract) < op.call.max_frames
             THEN [op EXCEPT
                      !.frames_to_extract =
                          IF frame_index < info.total_frames
                          THEN Append(@, [index |-> frame_index,
                                          timestamp |-> op.current_time])
                          ELSE @,
                      !.current_time = FracAdd(@, op.call.frame_interval)]
             ELSE [op EXCEPT !.pending = op.frames_to_extract, !.pc = "extract"]
    /\ UNCHANGED <<tasks, order, max_tasks, nextId, now, runs, poll, completions, executor>>

\* one iteration of the extraction loop: a frame that cannot be read is skipped
SamplerExtract ==
    /\ IsSampler
    /\ op.pc = "extract"
    /\ op.pending # <<>>
    /\ LET frame_info == op.pending[1]
       IN  op' = [op EXCEPT
                     !.pending = Tail(@),
                     !.extracted_frames =
                         IF ReadAt(op.video, frame_info.index)
                         THEN Append(@, [frame_index |-> frame_info.index,
                                         timestamp |-> frame_info.timestamp])
                         ELSE @]
    /\ UNCHANGED <<tasks, order, max_tasks, nextId, now, runs, poll, completions, executor>>

\* cap.release(), the return statement and the finally clause
SamplerReturn ==
    /\ IsSampler
    /\ op.pc = "extract"
    /\ op.pending = <<>>
    /\ op' = SamplerReturnValue(
                 Release(op),
                 IF op.kind = "extract_frames_by_interval"
                 THEN [frames |-> op.extracted_frames, video_info |-> op.video_info[1]]
                 ELSE [frames |-> op.extracted_frames])
    /\ UNCHANGED <<tasks, order, max_tasks, nextId, now, runs, poll, completions, executor>>

Sampler ==
    \/ CallSampler
    \/ SamplerWriteTemp
    \/ SamplerOpen
    \/ SamplerSelect
    \/ SamplerExtract
    \/ SamplerReturn

InitVideo == InitManager(DefaultMaxTasks)

NextVideo == Orchestrator \/ Assembler \/ Sampler \/ OperationOver

SpecVideo == InitVideo /\ [][NextVideo]_vars

(***************************************************************************)
(* The executor under concurrent calls of detect_and_annotate_video. A     *)
(* call awaits three submissions in turn, _write, _extract_info and        *)
(* _process, and then reads the output file in the coroutine itself. The   *)
(* executor is concurrent.futures.ThreadPoolExecutor: submit appends the   *)
(* work item to the queue and starts a thread when no thread is counted    *)
(* idle and fewer than max_workers exist; any thread waiting on the queue  *)
(* may take the next item; a thread that has run an item counts as idle.   *)
(*   executor.threads[t]   None while thread t waits on the queue, the     *)
(*                         call whose stage it runs otherwise              *)
(*   call.ran_on           the threads the blocking stages of the call     *)
(*                         ran on, in order; 0 is the event-loop thread    *)
(***************************************************************************)
MaxCalls == 2

PoolStages == <<"_write", "_extract_info", "_process">>

EventLoopThread == 0

NewCall == [pc |-> "ready", stage |-> 1, ran_on |-> <<>>, raised |-> FALSE]

Busy == {t \in 1..Len(executor.threads) : executor.threads[t] # None}

\* a request arrives: detect_and_annotate_video starts on the event loop
PoolCall ==
    /\ Len(executor.calls) < MaxCalls
    /\ executor' = [executor EXCEPT !.calls = Append(@, NewCall)]
    /\ UNCHANGED <<tasks, order, max_tasks, nextId, now, runs, poll, completions, op>>

\* await loop.run_in_executor(self.executor, <stage>): submit and _adjust_thread_count
PoolSubmit(c) ==
    /\ executor.calls[c].pc = "ready"
    /\ executor' =
          [executor EXCEPT
             !.queue = Append(@, c),
             !.idle = IF @ > 0 THEN @ - 1 ELSE @,
             !.threads = IF executor.idle = 0 /\ Len(@) < PoolSize
                         THEN Append(@, None) ELSE @,
             !.calls[c].pc = "awaiting"]
    /\ UNCHANGED <<tasks, order, max_tasks, nextId, now, runs, poll, completions, op>>

\* _worker: work_item = work_queue.get(block=True)
PoolTake(t) ==
    /\ executor.threads[t] = None
    /\ executor.queue # <<>>
    /\ LET c == Head(executor.queue)
       IN  executor' = [executor EXCEPT
                          !.queue = Tail(@),
                          !.threads[t] = Some(c),
                          !.calls[c].ran_on = Append(@, t)]
    /\ UNCHANGED <<tasks, order, max_tasks, nextId, now, runs, poll, completions, op>>

\* _worker: work_item.run() is over, the thread counts as idle; the awaiting
\* coroutine gets the stage's result or its exception
PoolFinish(t) ==
    /\ executor.threads[t] # None
    /\ LET c == executor.threads[t][1]
           call == executor.calls[c]
           freed == [executor EXCEPT !.threads[t] = None, !.idle = @ + 1]
       IN  \/ executor' = [freed EXCEPT
                             !.calls[c] =
                                 IF call.stage < Len(PoolStages)
                                 THEN [call EXCEPT !.pc = "ready", !.stage = @ + 1]
                                 ELSE [call EXCEPT !.pc = "read_output"]]
           \/ executor' = [freed EXCEPT
                             !.calls[c] = [call EXCEPT !.pc = "done", !.raised = TRUE]]
    /\ UNCHANGED <<tasks, order, max_tasks, nextId, now, runs, poll, completions, op>>

\* with open(temp_output_path, 'rb') as f: output_video_bytes = f.read()
PoolReadOutput(c) ==
    /\ executor.calls[c].pc = "read_output"
    /\ executor' = [executor EXCEPT
                      !.calls[c].pc = "done",
                      !.calls[c].ran_on = Append(@, EventLoopThread)]
    /\ UNCHANGED <<tasks, order, max_tasks, nextId, now, runs, poll, completions, op>>

PoolEventLoop ==
    \E c \in 1..Len(executor.calls) : PoolSubmit(c) \/ PoolReadOutput(c)

PoolWorker ==
    \E t \in 1..Len(executor.threads) : PoolTake(t) \/ PoolFinish(t)

InitPool == InitManager(DefaultMaxTasks)

NextPool == PoolCall \/ PoolEventLoop \/ PoolWorker

SpecPool == InitPool /\ [][NextPool]_vars

(***************************************************************************)
(* The service as a whole: the synchronous operations and the asynchronous *)
(* runs. They share no state, so they are explored one after the other:    *)
(* synchronous operations while no run has been submitted, submissions     *)
(* when no synchronous operation is in progress.                           *)
(***************************************************************************)
InitService == InitManager(DefaultMaxTasks)

SyncOperation == runs = <<>> /\ NextVideo

AsyncOperation == op.pc = "idle" /\ NextAsync

NextService == SyncOperation \/ AsyncOperation

SpecService == InitService /\ [][NextService]_vars

Evicted == (1..(nextId - 1)) \ DOMAIN tasks

(***************************************************************************)
(* Properties of the TaskManager registry.                                 *)
(***************************************************************************)

\* C1: over any sequence of update_progress calls on a task (a task that is
\* not terminal has seen no other call), its progress never decreases from
\* one call to the next and always lies in [0, 1].
C1_ProgressNonDecreasingInUnitRange ==
    [][\A id \in DOMAIN tasks :
          (id \in DOMAIN tasks' /\ ~IsTerminal(tasks[id]) /\ ~IsTerminal(tasks'[id]))
          => /\ FracLeq(tasks[id].progress, tasks'[id].progress)
             /\ FracLeq(Zero, tasks'[id].progress)
             /\ FracLeq(tasks'[id].progress, One)]_vars

\* C2: once a task is Completed or Failed, no later call changes its status.
C2_TerminalStatusNeverChanges ==
    [][\A id \in DOMAIN tasks :
          (id \in DOMAIN tasks' /\ IsTerminal(tasks[id]))
          => tasks'[id].status = tasks[id].status]_vars

\* C3: once a task is Completed or Failed, no operation changes any of its
\* fields (progress, current_frame, message, started_at, completed_at, result,
\* error).
C3_TerminalTaskIsFrozen ==
    [][\A id \in DOMAIN tasks :
          (id \in DOMAIN tasks' /\ IsTerminal(tasks[id]))
          => /\ tasks'[id].progress = tasks[id].progress
             /\ tasks'[id].current_frame = tasks[id].current_frame
             /\ tasks'[id].message = tasks[id].message
             /\ tasks'[id].started_at = tasks[id].started_at
             /\ tasks'[id].completed_at = tasks[id].completed_at
             /\ tasks'[id].result = tasks[id].result
             /\ tasks'[id].error = tasks[id].error]_vars

\* C4: in every reachable registry no task has both result and error: a
\* Completed task has a result and no error, a Failed task an error and no
\* result, a task that is not terminal neither.
C4_ResultXorError ==
    \A id \in DOMAIN tasks :
       LET task == tasks[id]
       IN  /\ task.status = COMPLETED => (task.result # None /\ task.error = None)
           /\ task.status = FAILED => (task.error # None /\ task.result = None)
           /\ ~IsTerminal(task) => (task.result = None /\ task.error = None)

\* C7: when every task is terminal at the time the next one is created, then
\* after N > max_tasks creations the registry holds at most
\* max_tasks + headroom entries.
C7_RegistryBoundedUnderSequentialCreation ==
    (nextId - 1 > max_tasks) => Cardinality(DOMAIN tasks) <= max_tasks + Headroom

\* C7 witness: more than max_tasks + headroom tasks were created one after the
\* other, and some of them were evicted.
C7_Witness ==
    /\ nextId - 1 > max_tasks + Headroom
    /\ Evicted # {}
    /\ \A id \in DOMAIN tasks : IsTerminal(tasks[id])

\* the step is a create_task call that finds the registry above max_tasks
SweepStep ==
    /\ nextId' = nextId + 1
    /\ Cardinality(DOMAIN tasks) + 1 > max_tasks

\* C8: a sweep at registry size > max_tasks removes exactly the first
\* size - max_tasks + headroom terminal tasks in ascending completed_at order
\* (all of them if there are fewer): every removed task is terminal and has
\* completed_at no later than every terminal task that is kept.
C8_SweepRemovesOldestCompleted ==
    [][SweepStep =>
        LET size == Cardinality(DOMAIN tasks) + 1
            terminal == {id \in DOMAIN tasks : IsTerminal(tasks[id])}
            removed == DOMAIN tasks \ DOMAIN tasks'
            kept == terminal \ removed
        IN  /\ removed \subseteq terminal
            /\ Cardinality(removed)
                 = Min(size - max_tasks + Headroom, Cardinality(terminal))
            /\ \A r \in removed, k \in kept :
                  tasks[r].completed_at[1] <= tasks[k].completed_at[1]]_vars

\* C8 witness: the sweep of the first creation above max_tasks kept a terminal
\* task, and the task it kept is not the one submitted last.
C8_Witness ==
    LET trigger == max_tasks + 1
    IN  /\ trigger \in DOMAIN tasks
        /\ Evicted # {}
        /\ \E k \in DOMAIN tasks :
              /\ k < max_tasks
              /\ IsTerminal(tasks[k])
              /\ tasks[k].completed_at[1] < tasks[trigger].created_at

\* C9: no operation removes a task whose status is Pending or Processing: a
\* task leaves the registry only while it is Completed or Failed.
C9_OnlyTerminalTasksAreRemoved ==
    [][\A id \in DOMAIN tasks :
          id \notin DOMAIN tasks' => IsTerminal(tasks[id])]_vars

\* C9 witness: a sweep has evicted tasks while a task created before the sweep
\* was still Processing, and that task is still in the registry.
C9_Witness ==
    /\ Evicted # {}
    /\ \E id \in DOMAIN tasks :
          /\ id <= max_tasks
          /\ tasks[id].status = PROCESSING
          /\ \E e \in Evicted : id < e

\* C10: update_progress, complete_task and fail_task on an id that is not in
\* the registry leave the registry unchanged: no task is created and no field
\* of an existing task changes.
C10_UnknownIdIsNoOp ==
    [][(StaleUpdate \/ StaleComplete \/ StaleFail)
          => (tasks' = tasks /\ order' = order)]_vars

\* C10 witness: the registry holds tasks, earlier tasks have been evicted, and
\* an id that was never created exists: the state a stale call acts on and
\* leaves behind.
C10_Witness ==
    /\ DOMAIN tasks # {}
    /\ Evicted # {}
    /\ UnknownIds \ Evicted # {}

\* the run of task id has ended and left the task in the given terminal condition
Ended(id, failed(_, _), completed(_)) ==
    /\ id \in DOMAIN runs
    /\ runs[id].pc = "finished"
    /\ id \in DOMAIN tasks
    /\ IF runs[id].exc # None
       THEN failed(tasks[id], runs[id].exc[1])
       ELSE completed(tasks[id])

FailedWithNonEmptyError(task, text) ==
    task.status = FAILED /\ task.error # None /\ task.error[1] # ""

FailedWithExceptionText(task, text) ==
    /\ task.status = FAILED
    /\ task.error = Some(text)
    /\ task.message = "Processing failed: " \o text

IsCompleted(task) == task.status = COMPLETED /\ task.result # None

\* C5: every task created by the asynchronous endpoint eventually reaches a
\* terminal status: Failed with a non-empty error message if the pipeline
\* failed at any point, Completed otherwise.
C5_EveryAsyncTaskEndsCompletedOrFailedWithError ==
    \A id \in AsyncIds :
        [](id \in DOMAIN runs => <>Ended(id, FailedWithNonEmptyError, IsCompleted))

\* C5 (amended): every task created by the asynchronous endpoint eventually
\* reaches a terminal status: if the pipeline failed at any point, Failed with
\* error set to the text of the exception, which is empty when the exception
\* carries no text, and with the message "Processing failed: <text>";
\* Completed with a result otherwise.
C5_EveryAsyncTaskEndsCompletedOrFailedWithExceptionText ==
    \A id \in AsyncIds :
        [](id \in DOMAIN runs => <>Ended(id, FailedWithExceptionText, IsCompleted))

C5_Witness ==
    \E id \in DOMAIN runs :
        /\ Ended(id, FailedWithExceptionText, IsCompleted)
        /\ runs[id].exc = Some("")
        /\ runs[id].frame_number > ProgressEvery
        /\ tasks[id].error = Some("")

\* C6: a status poll issued from another thread while a progress update or a
\* completion is in flight returns a snapshot equal to the task's state
\* entirely before or entirely after some call, never a mixture of fields
\* from before and after the same call (elapsed_time aside).
C6_PollReturnsStateAtCallBoundary ==
    poll.pc = "done" => poll.snap \in poll.views

\* C11: calling complete_task on a task that is already Completed leaves it
\* Completed with progress 1.0 and with the result of this second call in place
\* of the first one's, whatever the registry held before.
C11_SecondCompleteReplacesResult ==
    [][\A id \in DOMAIN tasks, result \in ResultValues :
          (tasks[id].status = COMPLETED /\ complete_task(id, result))
          => /\ id \in DOMAIN tasks'
             /\ tasks'[id].status = COMPLETED
             /\ tasks'[id].progress = One
             /\ tasks'[id].result = Some(result)]_vars

C11_Witness ==
    \E id \in DOMAIN tasks :
        /\ Len(completions[id]) = 2
        /\ completions[id][1] # completions[id][2]
        /\ tasks[id].status = COMPLETED
        /\ tasks[id].progress = One
        /\ tasks[id].result = Some(completions[id][2])

\* the operation in progress has returned to its caller
Returned(kind) == op.pc = "done" /\ op.kind = kind /\ op.result # None

Succeeded(kind) == Returned(kind) /\ op.result[1].status = "success"

\* ceil(a / b) for a >= 0, b > 0
CeilDiv(a, b) == (a + b - 1) \div b

\* C12: for a video with N readable frames and frame_skip s, the frame numbers
\* of the frame_detections that detect_objects_in_video returns are exactly
\* 0, s+1, 2(s+1), ... below N in increasing order: frame n is present iff
\* s = 0 or n % (s+1) = 0, frame 0 is present whenever there is a frame, and
\* there are ceil(N/(s+1)) entries (100 for N = 300, s = 2).
C12_FrameDetectionsFollowDecimation ==
    Succeeded("detect_objects_in_video") =>
        LET fd == op.result[1].frame_detections
            N == op.video.readable
            s == op.frame_skip
        IN  /\ Len(fd) = CeilDiv(N, s + 1)
            /\ \A i \in 1..Len(fd) : fd[i].frame_number = (i - 1) * (s + 1)
            /\ \A n \in 0..(N - 1) :
                  (\E i \in 1..Len(fd) : fd[i].frame_number = n)
                  <=> (s = 0 \/ n % (s + 1) = 0)
            /\ N > 0 => fd[1].frame_number = 0
            /\ (N = 300 /\ s = 2) => Len(fd) = 100

C12_Witness ==
    /\ Succeeded("detect_objects_in_video")
    /\ op.video = ExampleVideo
    /\ op.frame_skip = 2
    /\ Len(op.result[1].frame_detections) = 100
    /\ op.result[1].frame_detections[100].frame_number = 297

\* C13: whatever frame_skip is, the assembler has written exactly the frames it
\* has read, in their original order, each time the loop is about to read the
\* next frame; on return frames_total equals the number of frames read and
\* written, whatever the number of frames sent to the detector.
C13_AssemblerWritesEveryFrameRead ==
    /\ (IsAssembler /\ op.pc \in {"loop", "read_output"}) =>
          /\ Len(op.written) = op.frames_read
          /\ \A i \in 1..Len(op.written) : op.written[i] = i - 1
    /\ (Returned("detect_and_annotate_video")) =>
          /\ op.result[1].stats.frames_total = op.frames_read
          /\ op.result[1].stats.frames_total = op.video.readable
          /\ op.result[1].output_frames = [i \in 1..op.frames_read |-> i - 1]

C13_Witness ==
    /\ Returned("detect_and_annotate_video")
    /\ op.frame_skip = 2
    /\ op.result[1].stats.frames_total = MaxFrames
    /\ Len(op.adapter_calls) < op.frames_read
    /\ Len(op.result[1].output_frames) = MaxFrames

\* the per-frame counts of a frame list
Counts(fd) == [i \in 1..Len(fd) |-> fd[i].count]

\* the number of detections in a frame list, one pair per detection
NumDetections(fd) ==
    Cardinality(UNION {{<<i, k>> : k \in 1..fd[i].count} : i \in 1..Len(fd)})

\* the indices of the entries with the greatest count
ArgMax(fd) == {i \in 1..Len(fd) : \A j \in 1..Len(fd) : fd[j].count <= fd[i].count}

LowestArgMax(fd) == CHOOSE i \in ArgMax(fd) : \A j \in ArgMax(fd) : i <= j

\* the parts of the summary that are a partition and a total of the counts
SummaryCounts(sm, fd) ==
    /\ sm.total_detections = NumDetections(fd)
    /\ sm.frames_with_detections = Cardinality({i \in 1..Len(fd) : fd[i].count > 0})
    /\ sm.frames_without_detections = Cardinality({i \in 1..Len(fd) : fd[i].count = 0})
    /\ sm.frames_with_detections + sm.frames_without_detections = Len(fd)
    /\ Counts(fd) = <<2, 0, 1>> =>
          /\ sm.total_detections = 3
          /\ sm.frames_with_detections = 2
          /\ sm.frames_without_detections = 1
          /\ sm.avg_detections_per_frame = One
          /\ sm.max_detections_in_frame = 2
          /\ sm.frame_with_most_objects = Some(0)

\* C14: the summary is total = sum of the counts, frames with and without
\* detections partition the frames by count > 0, average = total divided by
\* the number of frames, and frame_with_most is the frame with the maximum
\* count, the lowest index on ties; counts [2,0,1] give 3, 2, 1, 1.0, 2 at 0.
C14_SummaryWithExactAverage ==
    Succeeded("detect_objects_in_video") =>
        LET fd == op.result[1].frame_detections
            sm == op.result[1].summary
        IN  /\ SummaryCounts(sm, fd)
            /\ Len(fd) > 0 =>
                  /\ sm.avg_detections_per_frame = Frac(sm.total_detections, Len(fd))
                  /\ sm.max_detections_in_frame = fd[LowestArgMax(fd)].count
                  /\ sm.frame_with_most_objects = Some(fd[LowestArgMax(fd)].frame_number)

\* C14 (amended): the summary is total = sum of the counts, frames with and
\* without detections partition the frames by count > 0, average = total
\* divided by the number of frames rounded to two decimals (0 for no frames),
\* and, when some frame has a detection, frame_with_most is the frame with
\* the maximum count, the lowest index on ties; when no frame has a
\* detection the maximum is 0 and frame_with_most is absent; counts [2,0,1]
\* give 3, 2, 1, 1.0, 2 at frame 0.
C14_SummaryWithRoundedAverage ==
    Succeeded("detect_objects_in_video") =>
        LET fd == op.result[1].frame_detections
            sm == op.result[1].summary
        IN  /\ SummaryCounts(sm, fd)
            /\ sm.avg_detections_per_frame =
                  IF Len(fd) > 0 THEN Round2(Frac(sm.total_detections, Len(fd))) ELSE Zero
            /\ IF sm.frames_with_detections > 0
               THEN /\ sm.max_detections_in_frame = fd[LowestArgMax(fd)].count
                    /\ sm.frame_with_most_objects =
                          Some(fd[LowestArgMax(fd)].frame_number)
               ELSE /\ sm.max_detections_in_frame = 0
                    /\ sm.frame_with_most_objects = None

C14_Witness ==
    /\ Succeeded("detect_objects_in_video")
    /\ Counts(op.result[1].frame_detections) = <<2, 0, 1>>
    /\ op.result[1].summary.detections_by_class = [c \in {"car", "person"} |->
                                                      IF c = "car" THEN 2 ELSE 1]
    /\ op.result[1].summary.frame_with_most_objects = Some(0)

\* the frames of a video of N frames that the decimation rule selects
Selected(N, frame_skip) == {n \in 0..(N - 1) : frame_skip = 0 \/ n % (frame_skip + 1) = 0}

\* one pair per detection the detector reports on the selected frames
DetectionsOn(detector, frames) ==
    UNION {{<<n, k>> : k \in 1..Len(Detect(detector, n).detections)} : n \in frames}

\* C15: the statistics the assembler returns count what the loop did:
\* frames_processed is the number of frames the decimation rule selects,
\* ceil(N/(frame_skip+1)); total_detections is the sum of the detections over
\* those frames; frames_with_detections is the number of those frames with at
\* least one detection; detections_by_class partitions the detections by class
\* and so sums to total_detections; frame_skip 0 on 300 frames with one
\* "person" per frame gives 300, 300 and {person: 300}.
C15_AnnotationStatsCountTheLoop ==
    Returned("detect_and_annotate_video") =>
        LET stats == op.result[1].stats
            frames == Selected(op.video.readable, op.frame_skip)
            found == DetectionsOn(op.detector, frames)
            ClassOf(d) == Detect(op.detector, d[1]).detections[d[2]]
        IN  /\ stats.frames_processed = Cardinality(frames)
            /\ stats.frames_processed = CeilDiv(op.video.readable, op.frame_skip + 1)
            /\ stats.total_detections = Cardinality(found)
            /\ stats.frames_with_detections =
                  Cardinality({n \in frames : Len(Detect(op.detector, n).detections) > 0})
            /\ DOMAIN stats.detections_by_class = {ClassOf(d) : d \in found}
            /\ \A c \in DOMAIN stats.detections_by_class :
                  stats.detections_by_class[c] = Cardinality({d \in found : ClassOf(d) = c})
            /\ (op.video.readable = 300 /\ op.frame_skip = 0 /\ op.detector = "one_person") =>
                  /\ stats.total_detections = 300
                  /\ stats.frames_with_detections = 300
                  /\ stats.detections_by_class = [c \in {"person"} |-> 300]

C15_Witness ==
    /\ Returned("detect_and_annotate_video")
    /\ op.video = ExampleVideo
    /\ op.frame_skip = 0
    /\ op.detector = "one_person"
    /\ op.result[1].stats.total_detections = 300
    /\ op.result[1].stats.detections_by_class = [c \in {"person"} |-> 300]

\* the i-th multiple of the interval, counting from 0
Multiple(i, interval) == Frac(i * interval.num, interval.den)

\* k = floor(t * fps)
IsFloorOfProduct(k, t, fps) == k * t.den <= t.num * fps /\ t.num * fps < (k + 1) * t.den

C17_SingleFrameIndexIsCheckedNotClamped ==
    (op.pc = "done" /\ op.kind = "extract_single_frame" /\ op.temp_path # None) =>
        LET requested == op.call.frame_index
            total_frames == op.video.total_frames
        IN  /\ (requested = None /\ op.result # None) =>
                  op.result[1].frame_index = total_frames \div 2
            /\ (requested # None /\ op.result # None) =>
                  op.result[1].frame_index = requested[1]
            /\ (requested # None /\ (requested[1] < 0 \/ requested[1] >= total_frames)) =>
                  op.result = None /\ op.raised # None

C17_Witness ==
    /\ op.pc = "done"
    /\ op.kind = "extract_single_frame"
    /\ op.video.total_frames = MaxFrames
    /\ op.video.readable = MaxFrames
    /\ op.call.frame_index = Some(MaxFrames)
    /\ op.result = None
    /\ op.raised = Some("Frame index " \o IntToStr(MaxFrames) \o " out of range (0-"
                        \o IntToStr(MaxFrames - 1) \o ")")

\* C18: segment_objects_in_video follows the iteration and decimation contract
\* of detect_objects_in_video: on a video that opens it calls the
\* segmentation adapter on exactly the frames n with frame_skip = 0 or
\* n % (frame_skip+1) = 0, in increasing order, and returns one entry per
\* such frame, an entry with count 0 for a frame with no segments included.
C18_SegmentationFollowsDecimation ==
    (op.pc = "done" /\ op.kind = "segment_objects_in_video" /\ op.video.openable
        /\ ~op.write_fails) =>
        LET step == op.frame_skip + 1
            kept == CeilDiv(op.video.readable, step)
        IN  /\ op.adapter_calls =
                  [i \in 1..kept |-> [model |-> "segmentation_model",
                                      frame_number |-> (i - 1) * step]]
            /\ op.result # None
            /\ op.result[1].status = "success"
            /\ Len(op.result[1].frame_segmentations) = kept
            /\ \A i \in 1..kept :
                  /\ op.result[1].frame_segmentations[i].frame_number = (i - 1) * step
                  /\ op.result[1].frame_segmentations[i].count =
                        Len(Detect(op.detector, (i - 1) * step).detections)

\* C19: when get_video_info, extract_single_frame, extract_frames_by_interval,
\* extract_frames_by_indices, detect_objects_in_video or
\* detect_and_annotate_video returns or raises, none of the temporary files
\* it created exists any more, on every exit path.
C19_NoTemporaryFileOutlivesItsOperation ==
    (op.pc = "done"
        /\ op.kind \in SamplerKinds \cup {"detect_objects_in_video",
                                          "detect_and_annotate_video"})
    => op.files = {}

\* C20: when get_video_info, extract_single_frame, extract_frames_by_interval,
\* extract_frames_by_indices or a frame loop of detect_objects_in_video or
\* detect_and_annotate_video returns or raises, every reader and writer it
\* opened has been released; a successful get_video_info has released its
\* reader exactly once.
C20_NoHandleOutlivesItsOperation ==
    (op.pc = "done"
        /\ op.kind \in SamplerKinds \cup {"detect_objects_in_video",
                                          "detect_and_annotate_video"})
    => /\ op.open = {}
       /\ (op.kind = "get_video_info" /\ op.result # None) => op.releases = <<"cap">>

\* C21: in the asynchronous pipeline a task's status moves only along
\* Pending -> Processing -> {Completed, Failed}, for a video of any length and
\* for a run that fails at any point: a task never becomes Completed or Failed
\* from a status other than Processing, and it never moves from one terminal
\* status to the other.
C21_StatusMovesThroughProcessing ==
    [][\A id \in DOMAIN tasks \cap DOMAIN tasks' :
          tasks'[id].status # tasks[id].status =>
             \/ tasks[id].status = PENDING /\ tasks'[id].status = PROCESSING
             \/ tasks[id].status = PROCESSING /\ IsTerminal(tasks'[id])]_vars

\* C22: update_progress on a known task sets current_frame and, when
\* total_frames > 0, sets progress to min(current_frame/total_frames, 1.0);
\* when total_frames = 0 it leaves progress alone, so progress is 0 until
\* complete_task sets it to 1.0; a call on a Pending task moves it to
\* Processing and records started_at, and a call on any other task leaves
\* status and started_at unchanged.
C22_UpdateProgressSetsFrameProgressAndStart ==
    [][/\ \A id \in DOMAIN tasks, current_frame \in CurrentFrameValues,
             message \in MessageValues :
             update_progress(id, current_frame, message) =>
                LET old == tasks[id]
                    new == tasks'[id]
                    total_frames == old.total_frames
                IN  /\ new.current_frame = current_frame
                    /\ new.total_frames = total_frames
                    /\ (total_frames > 0 /\ current_frame <= total_frames) =>
                          new.progress.num * total_frames
                             = current_frame * new.progress.den
                    /\ (total_frames > 0 /\ current_frame >= total_frames) =>
                          new.progress = One
                    /\ total_frames = 0 => new.progress = old.progress
                    /\ old.status = PENDING =>
                          new.status = PROCESSING /\ new.started_at = Some(now)
                    /\ old.status # PENDING =>
                          new.status = old.status /\ new.started_at = old.started_at
      /\ \A id \in DOMAIN tasks :
             tasks[id].total_frames = 0 =>
                \/ tasks[id].progress = Zero /\ completions[id] = <<>>
                \/ tasks[id].progress = One /\ completions[id] # <<>>]_vars

C22_Witness ==
    \E id \in DOMAIN tasks :
        /\ tasks[id].total_frames = 2
        /\ tasks[id].current_frame = 3
        /\ tasks[id].progress = One
        /\ tasks[id].status = PROCESSING
        /\ tasks[id].started_at # None
        /\ tasks[id].started_at[1] < now
        /\ completions[id] = <<>>

\* the first frame the loop sends to the adapter on which the adapter raises
FirstFailingFrame(video, detector, frame_skip) ==
    {n \in 0..(video.readable - 1) :
        /\ ShouldDetect(frame_skip, n) /\ ~Detect(detector, n).ok
        /\ \A m \in 0..(n - 1) : ShouldDetect(frame_skip, m) => Detect(detector, m).ok}

\* the message of the fatal error of a synchronous operation whose input copy
\* was written: the source does not open, or the adapter raises
FatalText(o) ==
    IF ~o.video.openable THEN {"Failed to open video file"}
    ELSE {Detect(o.detector, n).text :
             n \in FirstFailingFrame(o.video, o.detector, o.frame_skip)}

SyncDone(kind) == op.pc = "done" /\ op.kind = kind /\ ~op.write_fails

AsyncFatalEndsFailed ==
    \A id \in DOMAIN runs \cap DOMAIN tasks :
        (runs[id].pc = "finished" /\ runs[id].exc # None) =>
            /\ tasks[id].status = FAILED
            /\ tasks[id].error = runs[id].exc
            /\ tasks[id].result = None

UndrawableFrames(o) ==
    {n \in 0..(o.video.readable - 1) :
        /\ ShouldDetect(o.frame_skip, n)
        /\ Detect(o.detector, n).ok
        /\ Len(Detect(o.detector, n).detections) > 0
        /\ ~Draw(o.detector, n).ok}

\* C24: in the annotated output assembler a failure while drawing the
\* detections of one frame does not abort the run: the run raises nothing,
\* the frame is written to the output, the loop goes on with the next frame,
\* and the output holds every input frame in order.
C24_DrawFailureWritesFrameUnannotated ==
    (SyncDone("detect_and_annotate_video") /\ ~op.writer_fails
        /\ op.video.openable /\ UndrawableFrames(op) # {}) =>
        /\ op.raised = None
        /\ op.result # None
        /\ op.frames_read = op.video.readable
        /\ op.result[1].output_frames = [i \in 1..op.video.readable |-> i - 1]

\* the colour the assembler gives a class in a video whose first detection is
\* of that class
ColourWhenSeenFirst(class_name) == SeededColours[1]

\* C25: the annotation colour of a class is a function of the class name
\* alone: a class has the same colour in every frame and in every run,
\* whatever the order in which the classes first appear in a video, so in
\* every run it has the colour it has in a run in which it appears first.
C25_ColourDependsOnClassNameOnly ==
    IsAssembler =>
        \A class_name \in DOMAIN op.palette.colors :
            op.palette.colors[class_name] = ColourWhenSeenFirst(class_name)

\* C26: when reading frame k fails in the main loop of
\* detect_objects_in_video, the loop stops as if the stream had ended: the run
\* returns status success with entries for exactly the selected frames with
\* frame number below k, in increasing order, none for frame k or a later
\* frame, and it reports no error.
C26_ReadFailureEndsTheLoopSilently ==
    (SyncDone("detect_objects_in_video") /\ op.video.openable
        /\ op.video.readable < op.video.total_frames
        /\ FirstFailingFrame(op.video, op.detector, op.frame_skip) = {}) =>
        LET k == op.video.readable
        IN  /\ op.raised = None
            /\ op.result # None
            /\ op.result[1].status = "success"
            /\ "message" \notin DOMAIN op.result[1]
            /\ LET fd == op.result[1].frame_detections
               IN  /\ {fd[i].frame_number : i \in 1..Len(fd)}
                         = {n \in 0..(k - 1) : ShouldDetect(op.frame_skip, n)}
                   /\ \A i \in 1..(Len(fd) - 1) :
                         fd[i].frame_number < fd[i + 1].frame_number
                   /\ \A i \in 1..Len(fd) : fd[i].frame_number < k

C26_Witness ==
    /\ SyncDone("detect_objects_in_video")
    /\ op.video.total_frames = MaxFrames
    /\ op.video.readable = MaxFrames - 1
    /\ op.frame_skip = 0
    /\ op.result # None
    /\ op.result[1].status = "success"
    /\ Len(op.result[1].frame_detections) = MaxFrames - 1

\* C27: blocking video work runs only on the bounded worker pool: at any
\* instant at most PoolSize blocking stages execute, on pool threads; a stage
\* submitted when every worker is busy waits in the queue; and all blocking
\* stages of one call run on one and the same worker thread.
C27_OneWorkerPerCallWithinThePool ==
    /\ Cardinality(Busy) <= PoolSize
    /\ Len(executor.threads) <= PoolSize
    /\ \A c \in 1..Len(executor.calls) :
          LET ran_on == executor.calls[c].ran_on
          IN  /\ \A i \in 1..Len(ran_on) : ran_on[i] \in 1..PoolSize
              /\ \A i, j \in 1..Len(ran_on) : ran_on[i] = ran_on[j]

\* C28: within one asynchronous run the current_frame values passed to the
\* progress callback are strictly increasing, the k-th being 10k and equal to
\* the number of frames written so far; complete_task or fail_task is invoked
\* only when the last progress callback of the run has returned and no
\* callback follows it; and the task's progress, which is what a poll reads,
\* never decreases during the run.
C28_ProgressCallbacksIncreaseAndPrecedeTheEnd ==
    [][\A id \in DOMAIN runs \cap DOMAIN tasks :
          LET before == runs[id]
              after == runs'[id]
              k == Len(after.reported)
          IN  /\ after.reported # before.reported =>
                    /\ before.pc = "loop" /\ before.call = None
                    /\ ~IsTerminal(tasks[id])
                    /\ k = Len(before.reported) + 1
                    /\ after.call # None
                    /\ after.call[1].current_frame = after.reported[k]
                    /\ after.reported[k] = ProgressEvery * k
                    /\ after.reported[k] = after.written
                    /\ \A i \in 1..(k - 1) : after.reported[i] < after.reported[k]
              /\ (~IsTerminal(tasks[id]) /\ IsTerminal(tasks'[id])) =>
                    /\ before.call = None
                    /\ before.pc \in {"returned", "raised"}
                    /\ after.pc = "finished"
              /\ before.pc = "finished" => after.reported = before.reported
              /\ FracLeq(tasks[id].progress, tasks'[id].progress)
              /\ (poll'.pc \in {"current_frame", "message", "started_at",
                                "elapsed_time"} /\ poll'.task_id = id) =>
                    FracLeq(poll'.snap.progress, Round2(tasks'[id].progress))]_vars

C28_Witness ==
    \E id \in DOMAIN runs \cap DOMAIN tasks :
        /\ runs[id].pc = "finished"
        /\ runs[id].reported = <<ProgressEvery, 2 * ProgressEvery>>
        /\ runs[id].written = 2 * ProgressEvery
        /\ runs[id].video.total_frames = 2 * ProgressEvery
        /\ tasks[id].status = COMPLETED
        /\ tasks[id].current_frame = 2 * ProgressEvery

\* the complete_task and fail_task calls the run of task id has made
EndCalls(id) == IF id \in DOMAIN runs THEN runs[id].ended ELSE <<>>

\* C29: for each task created by detect_video_async the background run
\* invokes exactly one of complete_task and fail_task on that task, exactly
\* once: never more than one such call, and eventually one.
C29_ExactlyOneOfCompleteAndFail ==
    \A id \in AsyncIds :
        /\ [](Len(EndCalls(id)) <= 1)
        /\ [](id \in DOMAIN runs => <>[](Len(EndCalls(id)) = 1))

C29_Witness ==
    \E id \in DOMAIN runs \cap DOMAIN tasks :
        /\ runs[id].ended = <<"fail_task">>
        /\ runs[id].pc = "finished"
        /\ runs[id].reported # <<>>
        /\ tasks[id].status = FAILED

\* C30: after every create_task call returns, the returned id is in the
\* registry as a Pending task with progress 0, its own eviction sweep never
\* removes it, and if the registry still holds more than max_tasks tasks then
\* none of them is Completed or Failed.
C30_CreateTaskKeepsItsTaskAndSweepsTerminalOnes ==
    [][nextId' # nextId =>
          LET task_id == nextId
          IN  /\ nextId' = nextId + 1
              /\ task_id \in DOMAIN tasks'
              /\ tasks'[task_id].status = PENDING
              /\ tasks'[task_id].progress = Zero
              /\ tasks'[task_id].current_frame = 0
              /\ Len(order') > max_tasks =>
                    \A id \in DOMAIN tasks' : ~IsTerminal(tasks'[id])]_vars

C30_Witness ==
    /\ Len(order) > max_tasks
    /\ Evicted # {}
    /\ nextId - 1 \in DOMAIN tasks
    /\ tasks[nextId - 1].status = PENDING
    /\ \A id \in DOMAIN tasks : tasks[id].status \in {PENDING, PROCESSING}

TypeOK ==
    /\ DOMAIN tasks = Range(order)
    /\ \A id \in DOMAIN tasks : tasks[id].task_id = id /\ id < nextId

====
